---- MODULE Spec2Model ----
(***************************************************************************)
(* Model of the vulDocker orchestration core:                              *)
(*   - orchestrator/loop_controller.py  (LoopController, loop_state.json)  *)
(*   - rag/memories/__init__.py         (Reflexion store, JSONL file)      *)
(*   - orchestrator/pack.py             (PACK gate and manifest)           *)
(*   - orchestrator/state_machine/mvp.py (PLAN..PACK state machine)        *)
(*   - executor/runtime/docker_local.py (bundle run, sidecars, networks)   *)
(* Each subsystem has its own specification over the shared variables; the *)
(* variables of the other subsystems stay at their initial values.         *)
(***************************************************************************)
EXTENDS Integers, Sequences, FiniteSets, TLC

VARIABLES
    disk,       \* SID -> contents of metadata/<sid>/loop_state.json
    ctl,        \* SID -> in-memory state of the live LoopController
    store,      \* rag/memories/reflexion_store.jsonl, a sequence of records
    now,        \* the wall clock read by datetime.now()
    ret,        \* outcome of the last orchestrator operation
    policy,     \* SID -> plan.policy.allow_intentional_vuln
    manifest,   \* SID -> number of times manifest.json was written
    snapshot,   \* SID -> number of times the workspace snapshot was copied
    sm,         \* StateMachine.current
    sm_ret,     \* outcome of the last StateMachine call
    sm_from,    \* StateMachine.current before the last transition call
    sm_arg,     \* target argument of the last transition call
    sm_path,    \* states entered since construction or reset
    cfg,        \* plan: executor policy, sidecars, payloads of the bundle
    x,          \* locals of the running executor (main, _run_bundle, ...)
    containers, \* names of the containers the docker daemon is running
    networks,   \* names of the docker networks that exist
    created,    \* networks created by NetworkPool._ensure_network
    summary_json, \* artifacts/<sid>/run/summary.json
    index_json, \* the bundle's entry of artifacts/<sid>/run/index.json
    run_log,    \* artifacts/<sid>/run/run.log (what the verifier looks for)
    trace,      \* steps of the current bundle run, in the order they ran
    inv,        \* executor invocations completed
    np,         \* executor -> locals of its NetworkPool construction
    sf_exists,  \* whether reflexion_store.jsonl exists
    w,          \* process -> locals of its append_memory / load_memories call
    appended,   \* records whose append_memory call has returned
    evals_json, \* artifacts/<sid>/reports/evals.json (the bundle's result)
    pipe,       \* the stage programs run for the SID: the generator's
                \* position and the outcome of the last stage that ended
    syn,        \* SynthesisEngine.run: position, candidate reports,
                \* selected candidate and materialised workspace
    vf,         \* evaluate_with_vuln: arguments, verifiers called, result
    pl          \* orchestrator.plan main: requirement read, plan written

loopVars == <<disk, ctl, store, now, ret, policy, manifest, snapshot>>
smVars == <<sm, sm_ret, sm_from, sm_arg, sm_path>>
execVars == <<cfg, x, containers, networks, created, summary_json, index_json,
              run_log, trace, inv>>
vars == <<disk, ctl, store, now, ret, policy, manifest, snapshot,
          sm, sm_ret, sm_from, sm_arg, sm_path,
          cfg, x, containers, networks, created, summary_json, index_json,
          run_log, trace, inv, np, sf_exists, w, appended, evals_json, pipe, syn,
          vf, pl>>

netVars == <<np>>
rsVars == <<sf_exists, w, appended>>
pipeVars == <<evals_json, pipe>>
pureVars == <<syn, vf, pl>>
LoopFrame == UNCHANGED <<smVars, execVars, netVars, rsVars, pipeVars, pureVars>>
SMFrame == UNCHANGED <<loopVars, execVars, netVars, rsVars, pipeVars, pureVars>>
ExecFrame == UNCHANGED <<loopVars, smVars, netVars, rsVars, pipeVars, pureVars>>
NetFrame == UNCHANGED <<loopVars, smVars, rsVars, cfg, x, containers, created,
                        summary_json, index_json, run_log, trace, inv,
                        pipeVars, pureVars>>
StoreFrame == UNCHANGED <<disk, ctl, ret, policy, manifest, snapshot, smVars,
                          execVars, netVars, pipeVars, pureVars>>

----------------------------------------------------------------------------
(* Bounds of the model *)

MaxLoopsBound == 2      \* max_loops ranges over 1..MaxLoopsBound
MaxClock == 3           \* number of outcomes recorded in one behaviour
MaxPath == 6            \* length of the recorded state-machine path
MaxPacks == 1           \* PACK invocations that write a manifest
MaxSidecars == 2        \* sidecars declared in policy.executor.sidecars
MaxPayloads == 2        \* entries of requirement.poc_payloads
MaxInvocations == 2     \* executor invocations in one behaviour
MaxCandidates == 2      \* candidate_k ranges over 1..MaxCandidates
MaxExitCode == 1        \* exit codes of the PoC run range over 0..MaxExitCode

SIDs == {"sid-a"}
Stages == {"GENERATOR", "REVIEW"}

----------------------------------------------------------------------------
(* orchestrator/loop_controller.py *)

NoFile == [exists |-> FALSE, max_loops |-> 0, current_loop |-> 0,
           history |-> <<>>, last_result |-> "null"]

default_state(max_loops) ==
    [exists |-> TRUE, max_loops |-> max_loops, current_loop |-> 0,
     history |-> <<>>, last_result |-> "null"]

NoRet == [op |-> "none", sid |-> "-", arg |-> "-", val |-> "-"]

Alive(s) == ctl[s].exists

\* LoopController.__init__ / _load_state: an existing file wins over the
\* max_loops argument; otherwise the default state is written and used.
load_state(s, max_loops) ==
    /\ IF disk[s].exists
          THEN /\ ctl' = [ctl EXCEPT ![s] = disk[s]]
               /\ UNCHANGED disk
          ELSE /\ ctl' = [ctl EXCEPT ![s] = default_state(max_loops)]
               /\ disk' = [disk EXCEPT ![s] = default_state(max_loops)]
    /\ ret' = [op |-> "init", sid |-> s, arg |-> "-", val |-> "ok"]
    /\ UNCHANGED <<store, now, policy, manifest, snapshot>>

start_loop_unguarded(s) ==
    /\ Alive(s)
    /\ ctl[s].current_loop <= MaxLoopsBound + 1
    /\ LET st == [ctl[s] EXCEPT !.current_loop = @ + 1]
       IN /\ ctl' = [ctl EXCEPT ![s] = st]
          /\ disk' = [disk EXCEPT ![s] = st]
          /\ ret' = [op |-> "start_loop", sid |-> s, arg |-> "-", val |-> "ok"]
    /\ UNCHANGED <<store, now, policy, manifest, snapshot>>

\* LoopController.start_loop
start_loop(s) ==
    /\ Alive(s)
    /\ IF ctl[s].current_loop >= ctl[s].max_loops
          THEN /\ ret' = [op |-> "start_loop", sid |-> s, arg |-> "-", val |-> "LoopExhausted"]
               /\ UNCHANGED <<ctl, disk>>
          ELSE LET st == [ctl[s] EXCEPT !.current_loop = @ + 1]
               IN /\ ctl' = [ctl EXCEPT ![s] = st]
                  /\ disk' = [disk EXCEPT ![s] = st]
                  /\ ret' = [op |-> "start_loop", sid |-> s, arg |-> "-", val |-> "ok"]
    /\ UNCHANGED <<store, now, policy, manifest, snapshot>>

\* The history entry built by _record_outcome (reason, fix_hint and metadata
\* are carried through unchanged and are left out).
Entry(st, stage, success, blocking, ts) ==
    [loop |-> st.current_loop, stage |-> stage, success |-> success,
     blocking |-> blocking, timestamp |-> ts]

\* LoopController._record_outcome applied to the in-memory state
record_outcome(st, stage, success, blocking, ts) ==
    [st EXCEPT !.history = Append(@, Entry(st, stage, success, blocking, ts)),
               !.last_result = IF success THEN "success" ELSE "failure"]

\* rag.memories.ReflexionRecord as built by record_failure
ReflexionRecord(s, loop, stage, blocking, ts) ==
    [sid |-> s, loop_count |-> loop, stage |-> stage,
     blocking |-> blocking, timestamp |-> ts]

\* rag.memories.append_memory with a single writer: one line is added at
\* the end of the file.
append_memory(rec) == store' = Append(store, rec)

\* LoopController.record_success
record_success(s, stage) ==
    /\ Alive(s)
    /\ now <= MaxClock
    /\ IF ctl[s].current_loop = 0
          THEN /\ ret' = [op |-> "record_success", sid |-> s, arg |-> "-", val |-> "NoActiveLoop"]
               /\ UNCHANGED <<ctl, disk, now>>
          ELSE LET st == record_outcome(ctl[s], stage, TRUE, FALSE, now)
               IN /\ ctl' = [ctl EXCEPT ![s] = st]
                  /\ disk' = [disk EXCEPT ![s] = st]
                  /\ now' = now + 1
                  /\ ret' = [op |-> "record_success", sid |-> s, arg |-> "-", val |-> "ok"]
    /\ UNCHANGED <<store, policy, manifest, snapshot>>

record_failure_no_append(s, stage, blocking) ==
    /\ Alive(s)
    /\ now <= MaxClock
    /\ IF ctl[s].current_loop = 0
          THEN /\ ret' = [op |-> "record_failure", sid |-> s, arg |-> "-", val |-> "NoActiveLoop"]
               /\ UNCHANGED <<ctl, disk, now, store>>
          ELSE LET st == record_outcome(ctl[s], stage, FALSE, blocking, now)
               IN /\ ctl' = [ctl EXCEPT ![s] = st]
                  /\ disk' = [disk EXCEPT ![s] = st]
                  /\ now' = now + 1
                  /\ UNCHANGED store
                  /\ ret' = [op |-> "record_failure", sid |-> s, arg |-> "-", val |-> "ok"]
    /\ UNCHANGED <<policy, manifest, snapshot>>

\* LoopController.record_failure: _record_outcome, then append_memory with
\* the outcome's loop number and timestamp.
record_failure(s, stage, blocking) ==
    /\ Alive(s)
    /\ now <= MaxClock
    /\ IF ctl[s].current_loop = 0
          THEN /\ ret' = [op |-> "record_failure", sid |-> s, arg |-> "-", val |-> "NoActiveLoop"]
               /\ UNCHANGED <<ctl, disk, now, store>>
          ELSE LET st == record_outcome(ctl[s], stage, FALSE, blocking, now)
               IN /\ ctl' = [ctl EXCEPT ![s] = st]
                  /\ disk' = [disk EXCEPT ![s] = st]
                  /\ now' = now + 1
                  /\ append_memory(ReflexionRecord(s, st.current_loop, stage,
                                                   blocking, now))
                  /\ ret' = [op |-> "record_failure", sid |-> s, arg |-> "-", val |-> "ok"]
    /\ UNCHANGED <<policy, manifest, snapshot>>

should_continue_always(st) == TRUE

should_continue_no_zero(st) ==
    st.current_loop < st.max_loops /\ st.last_result = "failure"

\* LoopController.should_continue
should_continue(st) ==
    IF st.current_loop < st.max_loops /\ st.last_result = "failure"
       THEN TRUE
       ELSE IF st.current_loop = 0 THEN TRUE ELSE FALSE

ShouldContinue(s) ==
    /\ Alive(s)
    /\ ret' = [op |-> "should_continue", sid |-> s, arg |-> "-",
               val |-> IF should_continue(ctl[s]) THEN "true" ELSE "false"]
    /\ UNCHANGED <<disk, ctl, store, now, policy, manifest, snapshot>>

----------------------------------------------------------------------------
(* orchestrator/pack.py *)

assert_review_passed_flag_only(s, allow_intentional) ==
    IF ~disk[s].exists
       THEN TRUE
       ELSE IF disk[s].last_result # "null" /\ disk[s].last_result # "success"
               THEN allow_intentional
               ELSE TRUE

\* assert_review_passed: TRUE when it returns, FALSE when it raises
assert_review_passed(s, allow_intentional) ==
    IF ~disk[s].exists
       THEN TRUE
       ELSE IF disk[s].last_result # "null" /\ disk[s].last_result # "success"
               THEN (allow_intentional /\ policy[s])
               ELSE TRUE

FlagArg(allow_intentional) == IF allow_intentional THEN "flag" ELSE "noflag"

\* pack.main: the gate, then snapshot_workspace, then write_manifest (plan
\* and workspace are present: PLAN and DRAFT have run before PACK)
Pack(s, allow_intentional) ==
    /\ IF assert_review_passed(s, allow_intentional)
          THEN /\ manifest[s] < MaxPacks
               /\ snapshot' = [snapshot EXCEPT ![s] = @ + 1]
               /\ manifest' = [manifest EXCEPT ![s] = @ + 1]
               /\ ret' = [op |-> "pack", sid |-> s,
                          arg |-> FlagArg(allow_intentional), val |-> "ok"]
          ELSE /\ ret' = [op |-> "pack", sid |-> s,
                          arg |-> FlagArg(allow_intentional), val |-> "refused"]
               /\ UNCHANGED <<snapshot, manifest>>
    /\ UNCHANGED <<disk, ctl, store, now, policy>>

----------------------------------------------------------------------------
(* orchestrator/state_machine/mvp.py *)

MVP_STATES == {"PLAN", "DRAFT", "BUILD", "RUN", "VERIFY", "REVIEW", "PACK"}

MVP_TRANSITIONS_extra_edge ==
    [st \in MVP_STATES |->
        CASE st = "PLAN"   -> {"DRAFT"}
          [] st = "DRAFT"  -> {"BUILD", "REVIEW"}
          [] st = "BUILD"  -> {"RUN", "REVIEW"}
          [] st = "RUN"    -> {"VERIFY"}
          [] st = "VERIFY" -> {"PACK", "REVIEW"}
          [] st = "REVIEW" -> {"DRAFT", "PACK"}
          [] st = "PACK"   -> {}]

MVP_TRANSITIONS ==
    [st \in MVP_STATES |->
        CASE st = "PLAN"   -> {"DRAFT"}
          [] st = "DRAFT"  -> {"BUILD", "REVIEW"}
          [] st = "BUILD"  -> {"RUN"}
          [] st = "RUN"    -> {"VERIFY"}
          [] st = "VERIFY" -> {"PACK", "REVIEW"}
          [] st = "REVIEW" -> {"DRAFT", "PACK"}
          [] st = "PACK"   -> {}]

\* Arguments tried: every state name, some lower- and mixed-case spellings,
\* and a name that is no state.
Targets == MVP_STATES \cup {"draft", "Build", "review", "pack", "DEPLOY", "deploy"}

\* str.upper() on the arguments tried
upper(t) ==
    CASE t = "draft"  -> "DRAFT"
      [] t = "Build"  -> "BUILD"
      [] t = "review" -> "REVIEW"
      [] t = "pack"   -> "PACK"
      [] t = "deploy" -> "DEPLOY"
      [] OTHER        -> t

\* StateMachine.transition
transition(t) ==
    LET target == upper(t) IN
    /\ sm_from' = sm
    /\ sm_arg' = t
    /\ IF target \notin MVP_STATES
          THEN /\ sm_ret' = "ValueError: unknown target"
               /\ UNCHANGED <<sm, sm_path>>
          ELSE IF target \notin MVP_TRANSITIONS[sm]
                  THEN /\ sm_ret' = "ValueError: illegal transition"
                       /\ UNCHANGED <<sm, sm_path>>
                  ELSE /\ Len(sm_path) < MaxPath
                       /\ sm' = target
                       /\ sm_path' = Append(sm_path, target)
                       /\ sm_ret' = "ok"

\* StateMachine.reset
reset ==
    /\ sm' = "PLAN"
    /\ sm_path' = <<"PLAN">>
    /\ sm_ret' = "reset"
    /\ sm_from' = sm
    /\ sm_arg' = "-"

----------------------------------------------------------------------------
(* executor/runtime/docker_local.py: one executor process, one bundle *)

ExitNone == "None"

\* The plans tried: policy.executor (allow_network, network_name, sidecars
\* with or without aliases), whether the bundle needs an external DB, and
\* the number of PoC payloads.
ExecConfigs ==
    {c \in [allow_network : BOOLEAN,
            network_name : {"", "user-net"},
            aliases : BOOLEAN,
            n_sidecars : 0..MaxSidecars,
            needs_sidecars : BOOLEAN,
            n_payloads : 0..MaxPayloads] :
        /\ c.aliases => c.n_sidecars >= 1
        /\ c.network_name # "" => c.allow_network
        /\ c.needs_sidecars => c.n_sidecars >= 1}

NoConfig == [allow_network |-> FALSE, network_name |-> "", aliases |-> FALSE,
             n_sidecars |-> 0, needs_sidecars |-> FALSE, n_payloads |-> 0]

\* the summary dict of _run_bundle as first built
NewSummary ==
    [build_attempted |-> FALSE, build_passed |-> FALSE,
     run_attempted |-> FALSE, run_passed |-> FALSE, executed |-> FALSE,
     exit_code |-> ExitNone, error |-> FALSE, failed_stage |-> "None",
     network_mode |-> "None", sidecars |-> <<>>]

NoSummaryFile == [exists |-> FALSE, s |-> NewSummary]

IdleLocals ==
    [pc |-> "idle", build |-> FALSE, run |-> FALSE, mode |-> "None",
     stage |-> "None", sidecars |-> <<>>, records |-> <<>>, i |-> 0,
     exc |-> "none", rc |-> ExitNone, last_exit |-> ExitNone,
     summary |-> NewSummary]

do_build == x.build \/ ~(x.build \/ x.run)
do_run == x.run \/ ~(x.build \/ x.run)

SidecarName(i) == IF i = 1 THEN "sidecar-1" ELSE IF i = 2 THEN "sidecar-2"
                  ELSE "sidecar-3"
AppName == "app-runtime"
SidNet == "sid-net"

\* NetworkPool._resolve_mode: the mode, before any network is ensured
resolve_mode(c) ==
    IF ~c.allow_network THEN "none"
    ELSE IF c.network_name # "" THEN c.network_name
    ELSE IF c.aliases THEN SidNet
    ELSE "bridge"

\* the names _resolve_mode passes to _ensure_network
NamedMode(c) == c.allow_network /\ (c.network_name # "" \/ c.aliases)

Step(name) == trace' = Append(trace, name)

\* main: parse_args, load_plan
ExMain(b, r) ==
    /\ x.pc = "idle"
    /\ inv < MaxInvocations
    /\ x' = [IdleLocals EXCEPT !.pc = "pool", !.build = b, !.run = r]
    /\ trace' = <<>>
    /\ UNCHANGED <<cfg, containers, networks, created, summary_json,
                   index_json, run_log, inv>>

\* NetworkPool.__init__ -> _resolve_mode -> _ensure_network (one creator:
\* inspect, then create when the network is absent)
ExPool ==
    /\ x.pc = "pool"
    /\ LET mode == resolve_mode(cfg) IN
       /\ x' = [x EXCEPT !.pc = "acquire", !.mode = mode]
       /\ IF NamedMode(cfg) /\ mode \notin networks
             THEN /\ networks' = networks \cup {mode}
                  /\ created' = created \cup {mode}
             ELSE UNCHANGED <<networks, created>>
    /\ UNCHANGED <<cfg, containers, summary_json, index_json, run_log,
                   trace, inv>>

\* _run_bundle lines 272-284: NetworkPool.acquire, summary["network_mode"]
ExAcquire ==
    /\ x.pc = "acquire"
    /\ x' = [x EXCEPT !.pc = IF do_build THEN "build" ELSE "run",
                      !.summary.network_mode = x.mode]
    /\ Step("network_acquire")
    /\ UNCHANGED <<cfg, containers, networks, created, summary_json,
                   index_json, run_log, inv>>

\* _run_bundle lines 286-290: build_image, which raises ExecutorError when
\* docker build fails
ExBuild(ok) ==
    /\ x.pc = "build"
    /\ Step("build")
    /\ IF ok
          THEN x' = [x EXCEPT !.pc = IF do_run THEN "run" ELSE "stop_sidecars",
                              !.stage = "build",
                              !.summary.build_attempted = TRUE,
                              !.summary.build_passed = TRUE]
          ELSE x' = [x EXCEPT !.pc = "except", !.stage = "build",
                              !.summary.build_attempted = TRUE,
                              !.exc = "ExecutorError", !.rc = "1"]
    /\ UNCHANGED <<cfg, containers, networks, created, summary_json,
                   index_json, run_log, inv>>

\* _run_bundle lines 291-298 and _start_sidecars lines 448-456
ExRunBegin ==
    /\ x.pc = "run"
    /\ LET y == [x EXCEPT !.stage = "run", !.summary.run_attempted = TRUE] IN
       IF ~cfg.needs_sidecars \/ cfg.n_sidecars = 0
          THEN x' = [y EXCEPT !.pc = "app_start", !.sidecars = <<>>,
                              !.summary.sidecars = <<>>]
          ELSE IF x.mode = "none"
                  THEN x' = [y EXCEPT !.pc = "except",
                                      !.exc = "ExecutorError", !.rc = ExitNone]
                  ELSE x' = [y EXCEPT !.pc = "sidecar_run", !.records = <<>>,
                                      !.i = 1]
    /\ UNCHANGED <<cfg, containers, networks, created, summary_json,
                   index_json, run_log, trace, inv>>

\* _start_sidecars line 480: docker run -d for sidecar i; the command fails
\* when docker fails, and always when the name is already in use
ExSidecarRun(ok) ==
    /\ x.pc = "sidecar_run"
    /\ IF ok /\ SidecarName(x.i) \notin containers
          THEN /\ containers' = containers \cup {SidecarName(x.i)}
               /\ x' = [x EXCEPT !.pc = "sidecar_wait"]
               /\ Step("sidecar_up")
          ELSE /\ x' = [x EXCEPT !.pc = "except", !.exc = "ExecutorError",
                                 !.rc = "1"]
               /\ UNCHANGED <<containers, trace>>
    /\ UNCHANGED <<cfg, networks, created, summary_json, index_json,
                   run_log, inv>>

\* _start_sidecars lines 481-483 and the return into _run_bundle line 295:
\* _wait_for_sidecar (a mysql probe raises ExecutorError when the sidecar
\* does not become ready), then records.append; the records reach the
\* caller's sidecars only when _start_sidecars returns
ExSidecarWait(ok) ==
    /\ x.pc = "sidecar_wait"
    /\ IF ok
          THEN LET recs == Append(x.records, SidecarName(x.i)) IN
               IF x.i = cfg.n_sidecars
                  THEN x' = [x EXCEPT !.pc = "app_start", !.records = recs,
                                      !.sidecars = recs,
                                      !.summary.sidecars = recs]
                  ELSE x' = [x EXCEPT !.pc = "sidecar_run", !.records = recs,
                                      !.i = x.i + 1]
          ELSE x' = [x EXCEPT !.pc = "except", !.exc = "ExecutorError",
                              !.rc = ExitNone]
    /\ UNCHANGED <<cfg, containers, networks, created, summary_json,
                   index_json, run_log, trace, inv>>

\* run_container_with_poc lines 116-142: run.log is emptied, docker run -d
ExAppStart(ok) ==
    /\ x.pc = "app_start"
    /\ run_log' = "empty"
    /\ IF ok /\ AppName \notin containers
          THEN /\ containers' = containers \cup {AppName}
               /\ x' = [x EXCEPT !.pc = "push_poc"]
               /\ Step("app_up")
          ELSE /\ x' = [x EXCEPT !.pc = "stop_app", !.exc = "ExecutorError",
                                 !.rc = "1"]
               /\ UNCHANGED <<containers, trace>>
    /\ UNCHANGED <<cfg, networks, created, summary_json, index_json, inv>>

\* run_container_with_poc line 145: _push_poc_script
ExPushPoc(ok) ==
    /\ x.pc = "push_poc"
    /\ IF ok
          THEN /\ x' = [x EXCEPT !.pc = "wait_ready"]
               /\ Step("poc_push")
          ELSE /\ x' = [x EXCEPT !.pc = "stop_app", !.exc = "ExecutorError",
                                 !.rc = ExitNone]
               /\ UNCHANGED trace
    /\ UNCHANGED <<cfg, containers, networks, created, summary_json,
                   index_json, run_log, inv>>

\* run_container_with_poc lines 146-150: _wait_for_app_ready; on failure the
\* container logs are collected and the error is raised again
ExWaitReady(ok) ==
    /\ x.pc = "wait_ready"
    /\ IF ok
          THEN /\ x' = [x EXCEPT !.pc = "exec", !.i = 1]
               /\ Step("app_ready")
          ELSE /\ x' = [x EXCEPT !.pc = "stop_app", !.exc = "ExecutorError",
                                 !.rc = ExitNone]
               /\ Step("logs")
    /\ UNCHANGED <<cfg, containers, networks, created, summary_json,
                   index_json, run_log, inv>>

\* payloads or [None]
PayloadCount == IF cfg.n_payloads = 0 THEN 1 ELSE cfg.n_payloads

\* run_container_with_poc lines 152-174: docker exec of the PoC for payload
\* i; run_command raises on a non-zero exit, logs are then collected. The
\* PoC's output (with or without the success signature) goes to run.log.
ExExec(zero, sig) ==
    /\ x.pc = "exec"
    /\ run_log' = IF sig \/ run_log = "signature" THEN "signature" ELSE "output"
    /\ IF zero
          THEN /\ x' = [x EXCEPT !.last_exit = "0",
                                 !.i = x.i + 1,
                                 !.pc = IF x.i = PayloadCount THEN "logs"
                                        ELSE "exec"]
               /\ Step("exec")
          ELSE /\ x' = [x EXCEPT !.last_exit = IF x.last_exit = ExitNone
                                                  THEN "1" ELSE x.last_exit,
                                 !.pc = "stop_app", !.exc = "ExecutorError",
                                 !.rc = "1"]
               /\ trace' = trace \o <<"exec", "logs">>
    /\ UNCHANGED <<cfg, containers, networks, created, summary_json,
                   index_json, inv>>

\* run_container_with_poc lines 175-176: docker logs, return last_exit_code
ExLogs ==
    /\ x.pc = "logs"
    /\ x' = [x EXCEPT !.pc = "stop_app"]
    /\ Step("logs")
    /\ UNCHANGED <<cfg, containers, networks, created, summary_json,
                   index_json, run_log, inv>>

\* run_container_with_poc lines 177-178 (finally: docker stop) and, on a
\* normal return, _run_bundle lines 309-311
ExStopApp ==
    /\ x.pc = "stop_app"
    /\ containers' = containers \ {AppName}
    /\ Step("stop_app")
    /\ IF x.exc # "none"
          THEN x' = [x EXCEPT !.pc = "except"]
          ELSE x' = [x EXCEPT !.pc = "stop_sidecars",
                              !.summary.run_passed = TRUE,
                              !.summary.executed = TRUE,
                              !.summary.exit_code =
                                  IF x.last_exit # ExitNone THEN x.last_exit
                                  ELSE "0"]
    /\ UNCHANGED <<cfg, networks, created, summary_json, index_json,
                   run_log, inv>>

\* _run_bundle lines 312-316: except ExecutorError
ExExcept ==
    /\ x.pc = "except"
    /\ x' = [x EXCEPT !.pc = "stop_sidecars", !.exc = "none",
                      !.summary.error = TRUE,
                      !.summary.failed_stage = x.stage,
                      !.summary.exit_code =
                          IF x.summary.exit_code = ExitNone /\ x.rc # ExitNone
                             THEN x.rc ELSE x.summary.exit_code]
    /\ UNCHANGED <<cfg, containers, networks, created, summary_json,
                   index_json, run_log, trace, inv>>

Range(seq) == {seq[k] : k \in DOMAIN seq}

\* _run_bundle line 318 and _stop_sidecars: docker stop for every entry of
\* the caller's sidecars list
ExStopSidecars ==
    /\ x.pc = "stop_sidecars"
    /\ containers' = containers \ Range(x.sidecars)
    /\ x' = [x EXCEPT !.pc = "release"]
    /\ Step("stop_sidecars")
    /\ UNCHANGED <<cfg, networks, created, summary_json, index_json,
                   run_log, inv>>

\* _run_bundle line 319 and NetworkPool.release, whose body is `pass`
ExRelease ==
    /\ x.pc = "release"
    /\ x' = [x EXCEPT !.pc = "write_summary"]
    /\ Step("network_release")
    /\ UNCHANGED <<cfg, containers, networks, created, summary_json,
                   index_json, run_log, inv>>

merge_stage_flag_current_only(has_prev, prev_flag, cur_attempted, cur_flag) ==
    cur_flag

\* _merge_stage_flag; has_prev is the truth value of the previous dict
merge_stage_flag(has_prev, prev_flag, cur_attempted, cur_flag) ==
    IF cur_attempted THEN cur_flag
    ELSE IF has_prev THEN prev_flag
    ELSE cur_flag

\* _run_bundle lines 320-337: merged = previous updated with summary, the
\* three stage flags merged, then written (exit_code is a key of summary,
\* so setdefault never replaces it)
MergedSummary(prev, cur) ==
    [cur EXCEPT
        !.build_passed = merge_stage_flag(prev.exists, prev.s.build_passed,
                                          cur.build_attempted, cur.build_passed),
        !.run_passed = merge_stage_flag(prev.exists, prev.s.run_passed,
                                        cur.run_attempted, cur.run_passed),
        !.executed = merge_stage_flag(prev.exists, prev.s.executed,
                                      cur.run_attempted, cur.executed)]

ExWriteSummary ==
    /\ x.pc = "write_summary"
    /\ LET merged == MergedSummary(summary_json, x.summary) IN
       /\ summary_json' = [exists |-> TRUE, s |-> merged]
       /\ x' = [x EXCEPT !.pc = "write_index", !.summary = merged]
    /\ Step("summary")
    /\ UNCHANGED <<cfg, containers, networks, created, index_json, run_log,
                   inv>>

\* _write_index lines 358-379 for the bundle's entry
MergedIndex(prev, entry) ==
    [entry EXCEPT
        !.build_passed = merge_stage_flag(prev.exists, prev.s.build_passed,
                                          entry.build_attempted, entry.build_passed),
        !.run_passed = merge_stage_flag(prev.exists, prev.s.run_passed,
                                        entry.run_attempted, entry.run_passed),
        !.executed = merge_stage_flag(prev.exists, prev.s.executed,
                                      entry.run_attempted, entry.executed),
        !.exit_code = IF entry.exit_code = ExitNone /\ prev.exists
                         THEN prev.s.exit_code ELSE entry.exit_code]

\* main lines 210-224: the summary is collected and the index written
ExWriteIndex ==
    /\ x.pc = "write_index"
    /\ index_json' = [exists |-> TRUE, s |-> MergedIndex(index_json, x.summary)]
    /\ x' = [IdleLocals EXCEPT !.summary = x.summary]
    /\ inv' = inv + 1
    /\ UNCHANGED <<cfg, containers, networks, created, summary_json,
                   run_log, trace>>

\* evals/poc_verifier/main.py _evaluate_all: a bundle whose index entry is
\* not executed is skipped; otherwise the verdict rests on run.log holding
\* the success signature
verify_pass ==
    /\ index_json.exists
    /\ index_json.s.executed
    /\ run_log = "signature"

InitExecIdle ==
    /\ cfg = NoConfig
    /\ x = IdleLocals
    /\ containers = {}
    /\ networks = {}
    /\ created = {}
    /\ summary_json = NoSummaryFile
    /\ index_json = NoSummaryFile
    /\ run_log = "absent"
    /\ trace = <<>>
    /\ inv = 0

InitExec ==
    /\ cfg \in ExecConfigs
    /\ x = IdleLocals
    /\ containers = {}
    /\ networks \in {{}, {"user-net"}}
    /\ created = {}
    /\ summary_json = NoSummaryFile
    /\ index_json = NoSummaryFile
    /\ run_log = "absent"
    /\ trace = <<>>
    /\ inv = 0

----------------------------------------------------------------------------
(* NetworkPool construction by concurrent executors of one SID *)

Executors == {"exec-1", "exec-2"}

NpIdle == [pc |-> "init", name |-> "None"]

\* NetworkPool.__init__ and _resolve_mode up to the call of _ensure_network
NpResolve(p) ==
    /\ np[p].pc = "init"
    /\ np' = [np EXCEPT ![p] = [pc |-> IF NamedMode(cfg) THEN "inspect" ELSE "done",
                                name |-> resolve_mode(cfg)]]
    /\ UNCHANGED networks

\* _ensure_network lines 592-599: docker network inspect; return when found
NpInspect(p) ==
    /\ np[p].pc = "inspect"
    /\ np' = [np EXCEPT ![p].pc = IF np[p].name \in networks THEN "done"
                                  ELSE "create"]
    /\ UNCHANGED networks

\* _ensure_network lines 600-607: docker network create, which the daemon
\* refuses when a network of that name exists; a non-zero return code
\* raises ExecutorError out of NetworkPool.__init__
NpCreate(p) ==
    /\ np[p].pc = "create"
    /\ IF np[p].name \in networks
          THEN /\ np' = [np EXCEPT ![p].pc = "failed"]
               /\ UNCHANGED networks
          ELSE /\ networks' = networks \cup {np[p].name}
               /\ np' = [np EXCEPT ![p].pc = "done"]

InitNetIdle == np = [p \in Executors |-> NpIdle]

----------------------------------------------------------------------------
(* rag/memories/__init__.py under concurrent processes *)

Writers == {"writer-1", "writer-2"}
Readers == {"reader-1"}
StoreProcs == Writers \cup Readers

NoRecord == ReflexionRecord("-", 0, "-", FALSE, 0)

WIdle == [pc |-> "idle", rec |-> NoRecord, seen |-> <<>>]

WriterSid(p) == IF p = "writer-1" THEN "sid-a" ELSE "sid-b"

\* The caller builds the record and its timestamp (record_failure through
\* _record_outcome, _record_verifier_feedback) before append_memory runs.
WStamp(p, stage) ==
    /\ p \in Writers
    /\ w[p].pc = "idle"
    /\ now <= MaxClock
    /\ w' = [w EXCEPT ![p] = [pc |-> "exists",
                              rec |-> ReflexionRecord(WriterSid(p), 1, stage,
                                                      TRUE, now),
                              seen |-> <<>>]]
    /\ now' = now + 1
    /\ UNCHANGED <<store, sf_exists, appended>>

\* load_memories -> _iter_store
RStart(p) ==
    /\ p \in Readers
    /\ w[p].pc = "idle"
    /\ w' = [w EXCEPT ![p].pc = "exists"]
    /\ UNCHANGED <<store, now, sf_exists, appended>>

\* _ensure_store line 45: the test of _STORE_PATH.exists()
EnsureExists(p) ==
    /\ w[p].pc = "exists"
    /\ w' = [w EXCEPT ![p].pc = IF sf_exists THEN "use" ELSE "create"]
    /\ UNCHANGED <<store, now, sf_exists, appended>>

\* _ensure_store line 46: write_text("") creates the file, or empties the
\* one another process has created since the test
EnsureCreate(p) ==
    /\ w[p].pc = "create"
    /\ sf_exists' = TRUE
    /\ store' = <<>>
    /\ w' = [w EXCEPT ![p].pc = "use"]
    /\ UNCHANGED <<now, appended>>

\* append_memory lines 54-55: open in append mode, one line written
WAppend(p) ==
    /\ p \in Writers
    /\ w[p].pc = "use"
    /\ sf_exists' = TRUE
    /\ append_memory(w[p].rec)
    /\ appended' = appended \cup {w[p].rec}
    /\ w' = [w EXCEPT ![p].pc = "idle"]
    /\ UNCHANGED now

\* _iter_store line 61: read_text
RRead(p) ==
    /\ p \in Readers
    /\ w[p].pc = "use"
    /\ sf_exists
    /\ w' = [w EXCEPT ![p] = [pc |-> "idle", rec |-> NoRecord, seen |-> store]]
    /\ UNCHANGED <<store, now, sf_exists, appended>>

InitStoreIdle ==
    /\ sf_exists = FALSE
    /\ w = [p \in StoreProcs |-> WIdle]
    /\ appended = {}

----------------------------------------------------------------------------
(* The stage programs of one SID, run one after the other:                 *)
(* agents/generator (synthesis mode), executor/runtime/docker_local.py,    *)
(* evals/poc_verifier/main.py, agents/reviewer, orchestrator/pack.py       *)

PipeSid == "sid-a"

NoEvals == [exists |-> FALSE, verify_pass |-> FALSE, status |-> "none"]

PipeIdle == [gen |-> "idle", last |-> "NONE", failed |-> FALSE]

InitPipeIdle ==
    /\ evals_json = NoEvals
    /\ pipe = PipeIdle

\* No stage program is running
Quiet == x.pc = "idle" /\ pipe.gen = "idle"

\* LoopController(sid, max_loops) as the services construct it
loaded(max_loops) ==
    IF disk[PipeSid].exists THEN disk[PipeSid] ELSE default_state(max_loops)

\* _ensure_loop_started / ReviewerService.run lines 65-66: start_loop when
\* current_loop == 0 (max_loops >= 1, so this start_loop never raises)
ensure_loop_started(st) ==
    IF st.current_loop = 0 THEN [st EXCEPT !.current_loop = 1] ELSE st

\* The loop state is saved and kept by the service's controller
SaveLoop(st) ==
    /\ disk' = [disk EXCEPT ![PipeSid] = st]
    /\ ctl' = [ctl EXCEPT ![PipeSid] = st]

\* GeneratorService.__init__ and run in synthesis mode, up to the end of
\* the first iteration of _run_synthesis_with_loops; ok is whether
\* _run_synthesis_once returned (FALSE: ManifestValidationError)
GenBegin(max_loops, ok) ==
    /\ Quiet
    /\ now <= MaxClock
    /\ LET st1 == ensure_loop_started(loaded(max_loops))
           st2 == record_outcome(st1, "GENERATOR", ok, ~ok, now)
       IN IF ok
             THEN /\ SaveLoop(st2)
                  /\ pipe' = [gen |-> "idle", last |-> "GENERATOR",
                              failed |-> FALSE]
                  /\ UNCHANGED store
             ELSE /\ append_memory(ReflexionRecord(PipeSid, st2.current_loop,
                                                   "GENERATOR", TRUE, now))
                  /\ IF should_continue(st2)
                        THEN /\ SaveLoop([st2 EXCEPT !.current_loop = @ + 1])
                             /\ pipe' = [pipe EXCEPT !.gen = "retry"]
                        ELSE /\ SaveLoop(st2)
                             /\ pipe' = [gen |-> "idle", last |-> "GENERATOR",
                                         failed |-> TRUE]
    /\ now' = now + 1
    /\ ret' = [op |-> "generator", sid |-> PipeSid, arg |-> "-",
               val |-> IF ok THEN "ok" ELSE "failure"]
    /\ UNCHANGED <<policy, manifest, snapshot, evals_json>>
    /\ UNCHANGED <<smVars, execVars, netVars, rsVars, pureVars>>

\* One more iteration of _run_synthesis_with_loops
GenRetry(ok) ==
    /\ pipe.gen = "retry"
    /\ now <= MaxClock
    /\ LET st2 == record_outcome(ctl[PipeSid], "GENERATOR", ok, ~ok, now)
       IN IF ok
             THEN /\ SaveLoop(st2)
                  /\ pipe' = [gen |-> "idle", last |-> "GENERATOR",
                              failed |-> FALSE]
                  /\ UNCHANGED store
             ELSE /\ append_memory(ReflexionRecord(PipeSid, st2.current_loop,
                                                   "GENERATOR", TRUE, now))
                  /\ IF should_continue(st2)
                        THEN /\ SaveLoop([st2 EXCEPT !.current_loop = @ + 1])
                             /\ pipe' = [pipe EXCEPT !.gen = "retry"]
                        ELSE /\ SaveLoop(st2)
                             /\ pipe' = [gen |-> "idle", last |-> "GENERATOR",
                                         failed |-> TRUE]
    /\ now' = now + 1
    /\ ret' = [op |-> "generator", sid |-> PipeSid, arg |-> "-",
               val |-> IF ok THEN "ok" ELSE "failure"]
    /\ UNCHANGED <<policy, manifest, snapshot, evals_json>>
    /\ UNCHANGED <<smVars, execVars, netVars, rsVars, pureVars>>

\* ReviewerService.__init__ and run: the outcome of the review is recorded
\* with the loop controller
ReviewerRun(max_loops, blocking) ==
    /\ Quiet
    /\ now <= MaxClock
    /\ LET st1 == ensure_loop_started(loaded(max_loops))
           st2 == record_outcome(st1, "REVIEW", ~blocking, blocking, now)
       IN /\ SaveLoop(st2)
          /\ IF blocking
                THEN append_memory(ReflexionRecord(PipeSid, st2.current_loop,
                                                   "REVIEW", TRUE, now))
                ELSE UNCHANGED store
    /\ pipe' = [gen |-> "idle", last |-> "REVIEW", failed |-> blocking]
    /\ now' = now + 1
    /\ ret' = [op |-> "reviewer", sid |-> PipeSid, arg |-> "-",
               val |-> IF blocking THEN "failure" ELSE "ok"]
    /\ UNCHANGED <<policy, manifest, snapshot, evals_json>>
    /\ UNCHANGED <<smVars, execVars, netVars, rsVars, pureVars>>

\* docker_local.py main, step by step; the last step ends the stage, with
\* exit status 1 when the bundle's summary holds an error
PipeExec(A) ==
    /\ pipe.gen = "idle"
    /\ A
    /\ UNCHANGED <<loopVars, smVars, netVars, rsVars, evals_json, pureVars>>
    /\ IF x.pc = "write_index"
          THEN pipe' = [gen |-> "idle", last |-> "EXECUTOR",
                       failed |-> x.summary.error]
          ELSE UNCHANGED pipe

\* _evaluate_all for the bundle: status and verify_pass of its entry
evaluate ==
    IF ~(index_json.exists /\ index_json.s.executed)
       THEN [exists |-> TRUE, verify_pass |-> FALSE, status |-> "skipped"]
    ELSE IF run_log = "absent"
       THEN [exists |-> TRUE, verify_pass |-> FALSE, status |-> "log_missing"]
    ELSE [exists |-> TRUE, verify_pass |-> verify_pass, status |-> "evaluated"]

\* poc_verifier main: _evaluate_all, _record_verifier_feedback (a Reflexion
\* record for a bundle that did not pass; loop_state.json is only read),
\* then evals.json is written
VerifierRun ==
    /\ Quiet
    /\ now <= MaxClock
    /\ LET e == evaluate IN
       /\ evals_json' = e
       /\ IF e.verify_pass
             THEN UNCHANGED store
             ELSE append_memory(ReflexionRecord(PipeSid,
                                    IF disk[PipeSid].exists
                                       THEN disk[PipeSid].current_loop ELSE 0,
                                    "VERIFIER", TRUE, now))
       /\ pipe' = [gen |-> "idle", last |-> "VERIFIER",
                   failed |-> ~e.verify_pass]
    /\ now' = now + 1
    /\ ret' = [op |-> "verifier", sid |-> PipeSid, arg |-> "-",
               val |-> IF evaluate.verify_pass THEN "ok" ELSE "failure"]
    /\ UNCHANGED <<disk, ctl, policy, manifest, snapshot>>
    /\ UNCHANGED <<smVars, execVars, netVars, rsVars, pureVars>>

\* pack.py main, run when no stage program is running
PipePack(allow_intentional) ==
    /\ Quiet
    /\ Pack(PipeSid, allow_intentional)
    /\ UNCHANGED <<smVars, execVars, netVars, rsVars, pipeVars, pureVars>>

----------------------------------------------------------------------------
(* agents/generator/synthesis.py: SynthesisEngine.run for a Python bundle  *)
(* (no dep_guard options, no rule file, no user deps)                      *)

\* _canonicalize_package_name after _normalize_dependency_token, for the
\* import roots and dependency tokens used here: the version is stripped,
\* the name lower-cased, and the alias map applied (sqlite3 is an alias of
\* pysqlite3-binary in the stdlib fallback table)
canonical(tok) ==
    CASE tok = "Flask==2.3.3"      -> "flask"
      [] tok = "flask"             -> "flask"
      [] tok = "Jinja2==3.1.4"     -> "jinja2"
      [] tok = "requests==2.32.2"  -> "requests"
      [] tok = "requests"          -> "requests"
      [] tok = "sqlite3"           -> "pysqlite3-binary"
      [] tok = "pysqlite3-binary==0.5.2" -> "pysqlite3-binary"
      [] OTHER                     -> tok

CanonSet(S) == {canonical(tok) : tok \in S}

\* What a manifest holds, as far as the guard and the scorer read it:
\*   imports   import roots of its Python files
\*   deps      the deps array
\*   has_reqs, reqs  requirements.txt and its lines
\*   pip       the pip install commands of Dockerfile and build.command:
\*             whether there is one, the packages named on the command line
\*             and the files named by -r
\*   hits      the SQLi patterns found by the static scorer (of five)
InstallSteps ==
    { [any |-> FALSE, direct |-> {}, rfiles |-> {}],
      [any |-> TRUE, direct |-> {}, rfiles |-> {}],
      [any |-> TRUE, direct |-> {"flask"}, rfiles |-> {}],
      [any |-> TRUE, direct |-> {"flask", "requests"}, rfiles |-> {}],
      [any |-> TRUE, direct |-> {}, rfiles |-> {"requirements.txt"}],
      [any |-> TRUE, direct |-> {}, rfiles |-> {"reqs-prod.txt"}] }

Manifests ==
    {m \in [imports : {{"flask"}, {"flask", "requests"}},
            deps : SUBSET {"Flask==2.3.3", "requests==2.32.2"},
            has_reqs : BOOLEAN,
            reqs : {{}, {"Flask==2.3.3"}, {"Flask==2.3.3", "requests==2.32.2"}},
            pip : InstallSteps,
            hits : {1, 3}] :
        m.has_reqs <=> m.reqs # {}}

\* _fallback_manifest: app.py imports flask and sqlite3, poc.py imports
\* requests; deps lists Flask and requests; requirements.txt lists Flask
\* and Jinja2; Dockerfile and build.command run pip install -r
\* requirements.txt; the text holds two of the five SQLi patterns
fallback_manifest ==
    [imports |-> {"flask", "sqlite3", "requests"},
     deps |-> {"Flask==2.3.3", "requests==2.32.2"},
     has_reqs |-> TRUE,
     reqs |-> {"Flask==2.3.3", "Jinja2==3.1.4"},
     pip |-> [any |-> TRUE, direct |-> {}, rfiles |-> {"requirements.txt"}],
     hits |-> 2]

\* The replies of the LLM: a JSON object holding a manifest, or text that is
\* not JSON
NotJson == [json |-> FALSE, m |-> fallback_manifest]
Responses == {NotJson} \cup {[json |-> TRUE, m |-> m] : m \in Manifests}

\* Manifests whose Python files import flask and standard-library modules
StdlibManifests ==
    {m \in [imports : {{"flask"} \cup S :
                          S \in SUBSET {"argparse", "sys", "sqlite3", "logging"}},
            deps : SUBSET {"Flask==2.3.3", "requests==2.32.2"},
            has_reqs : BOOLEAN,
            reqs : {{}, {"Flask==2.3.3"}, {"Flask==2.3.3", "requests==2.32.2"}},
            pip : {[any |-> FALSE, direct |-> {}, rfiles |-> {}],
                   [any |-> TRUE, direct |-> {"flask"}, rfiles |-> {}],
                   [any |-> TRUE, direct |-> {},
                    rfiles |-> {"requirements.txt"}]},
            hits : {1}] :
        m.has_reqs <=> m.reqs # {}}

StdlibResponses == {[json |-> TRUE, m |-> m] : m \in StdlibManifests}

\* _parse_manifest
parse_manifest(raw) == IF raw.json THEN raw.m ELSE fallback_manifest

\* _detect_required_dependencies
required_static(m) == CanonSet(m.imports)

\* _extract_declared_dependencies
from_deps_field(m) == CanonSet(m.deps)
from_requirements(m) == IF m.has_reqs THEN CanonSet(m.reqs) ELSE {}
declared_combined(m) == from_deps_field(m) \cup from_requirements(m)

\* _detect_build_installs: the packages the pip install commands resolve
\* to; -r of a file that is not a requirements file of the manifest
\* resolves to nothing
installed_from_build(m) ==
    CanonSet(m.pip.direct)
        \cup (IF "requirements.txt" \in m.pip.rfiles
                THEN from_requirements(m) ELSE {})

\* The check of the build commands as _guard_manifest decides to run it
build_check_applies(m) == installed_from_build(m) # {}

\* _guard_manifest: the violations, one per message
guard_manifest(m) ==
    LET missing_static == required_static(m) \ declared_combined(m)
        missing_from_requirements ==
            IF from_requirements(m) # {}
               THEN from_deps_field(m) \ from_requirements(m) ELSE {}
        missing_from_build ==
            IF build_check_applies(m)
               THEN (required_static(m) \ installed_from_build(m))
                        \ missing_static
               ELSE {}
    IN {<<"missing dependency", d>> : d \in missing_static}
       \cup {<<"missing from requirements", d>> : d \in missing_from_requirements}
       \cup {<<"not installed by build", d>> : d \in missing_from_build}

\* load_stdlib_spec, as far as the modules of the manifests go: the
\* built-in table of standard-library modules, canonicalised by
\* _load_stdlib_spec before the alias sqlite3 -> pysqlite3-binary is merged
\* into the alias map
stdlib_modules == {"argparse", "logging", "sqlite3", "sys"}

auto_patch_denylist == {"logging", "sqlite3"}

\* _default_versions, as the line name==version; "" when there is none
default_versions(name) ==
    CASE name = "requests"         -> "requests==2.32.2"
      [] name = "pysqlite3-binary" -> "pysqlite3-binary==0.5.2"
      [] OTHER                     -> ""

\* _append_requirement_line, for a set of lines
append_requirement_lines(reqs, lines) ==
    reqs \cup {l \in lines : canonical(l) \notin CanonSet(reqs)}

\* _maybe_auto_patch_dependencies, the LLM suggesting nothing: requirements
\* are synced with deps[], then every required package that is not declared
\* is added to deps[] and to the requirements file, unless it is skipped
maybe_auto_patch_dependencies(m) ==
    LET static_candidates == required_static(m) \ declared_combined(m)
        declared_deps == CanonSet(m.deps)
        requirements_packages == CanonSet(m.reqs)
        missing_requirements == declared_deps \ requirements_packages
        synced == {default_versions(c) :
                      c \in {d \in missing_requirements \ auto_patch_denylist :
                                default_versions(d) # ""}}
        \* _module_alias_map.get(canonical, canonical) of a canonical name
        \* is the name itself
        patched == {default_versions(c) :
                       c \in {d \in static_candidates :
                                 /\ d \notin auto_patch_denylist
                                 /\ d \notin stdlib_modules
                                 /\ d \notin declared_deps
                                 /\ default_versions(d) # ""}}
    IN [m EXCEPT !.has_reqs = TRUE,
                 !.deps = @ \cup patched,
                 !.reqs = append_requirement_lines(
                              append_requirement_lines(@, synced), patched)]

Max(a, b) == IF a >= b THEN a ELSE b
Min(a, b) == IF a <= b THEN a ELSE b

\* analyze_sql_injection_signals: score = hit_count / 5, in thousandths
signal_score(m) == (m.hits * 1000) \div 5

\* _score_candidate, in thousandths
score_candidate(violation_count, signal) ==
    LET base == Max(0, 1000 - 200 * violation_count)
        bonus == (Max(0, Min(1000, signal)) * 3) \div 10
    IN Min(1000, base + bonus)

NoManifest == [written |-> FALSE, m |-> fallback_manifest]

SynIdle == [pc |-> "idle", k |-> 0, auto_patch |-> FALSE, reports |-> <<>>, selected |-> 0,
            workspace |-> NoManifest]

SynFrame ==
    UNCHANGED <<loopVars, smVars, execVars, netVars, rsVars, pipeVars, vf, pl>>

\* run: candidate_k = max(1, candidate_k); auto_patch is
\* dep_guard.auto_patch of the requirement
SynStart(k, auto_patch) ==
    /\ syn.pc = "idle"
    /\ syn' = [syn EXCEPT !.pc = "candidates", !.k = Max(1, k),
                          !.auto_patch = auto_patch]

\* run lines 275-319: one candidate is asked for, parsed, patched when
\* auto_patch is on, guarded, scored
SynCandidate(raw) ==
    /\ syn.pc = "candidates"
    /\ Len(syn.reports) < syn.k
    /\ LET parsed == parse_manifest(raw)
           m == IF syn.auto_patch
                   THEN maybe_auto_patch_dependencies(parsed) ELSE parsed
           v == guard_manifest(m)
           report == [index |-> Len(syn.reports) + 1, manifest |-> m,
                      parsed |-> parsed,
                      json |-> raw.json, violations |-> v,
                      score |-> score_candidate(Cardinality(v), signal_score(m)),
                      static |-> signal_score(m)]
       IN syn' = [syn EXCEPT !.reports = Append(@, report)]

Accepted(reports) ==
    {i \in DOMAIN reports : reports[i].violations = {}}

\* max(accepted, key=lambda report: (report.score, -report.index))
select(reports) ==
    CHOOSE i \in Accepted(reports) :
        \A j \in Accepted(reports) :
            \/ reports[i].score > reports[j].score
            \/ (reports[i].score = reports[j].score /\ i <= j)

\* run lines 321-347: ManifestValidationError when no candidate is
\* accepted; otherwise the selected manifest is materialised
SynSelect ==
    /\ syn.pc = "candidates"
    /\ Len(syn.reports) = syn.k
    /\ IF Accepted(syn.reports) = {}
          THEN syn' = [syn EXCEPT !.pc = "ManifestValidationError"]
          ELSE LET i == select(syn.reports) IN
               syn' = [syn EXCEPT !.pc = "done", !.selected = i,
                                  !.workspace = [written |-> TRUE,
                                                 m |-> syn.reports[i].manifest]]

----------------------------------------------------------------------------
(* evals/poc_verifier: rule_based.verify_with_rule, llm_assisted and       *)
(* registry.evaluate_with_vuln                                             *)

\* The rule file of the vuln id: none, or which success criteria it gives
NoRule == [present |-> FALSE, signature |-> FALSE, flag_token |-> FALSE,
           json_key |-> FALSE]

Rules ==
    {NoRule} \cup [present : {TRUE}, signature : BOOLEAN,
                   flag_token : BOOLEAN, json_key : BOOLEAN]

\* run.log: whether it holds the rule's signature, whether
\* _match_flag_token finds the flag, whether one of its JSON objects meets
\* the rule's JSON criteria
Logs == [signature : BOOLEAN, flag : BOOLEAN, json : BOOLEAN]

\* The run summary (run_summary or summary.json next to the log): absent,
\* or with or without an exit_code key; exit_code -1 stands for null
NoSummary == [present |-> FALSE, json |-> FALSE, has_exit |-> FALSE,
              exit_code |-> -1]

Summaries ==
    {NoSummary}
      \cup {s \in [present : {TRUE}, json : BOOLEAN, has_exit : BOOLEAN,
                   exit_code : -1..MaxExitCode] :
               ~s.has_exit => s.exit_code = -1}

VerifierPolicies ==
    [prefer_rule : BOOLEAN, llm_assist : BOOLEAN,
     require_exit_code_zero : BOOLEAN]

\* "not policy" of an empty dict: no key of the verifier policy is set
policy_empty(pol) ==
    ~pol.prefer_rule /\ ~pol.llm_assist /\ ~pol.require_exit_code_zero

apply_exit_policy_ignored(success, summary, pol) == success

\* _apply_exit_policy
apply_exit_policy(success, summary, pol) ==
    IF ~summary.present \/ policy_empty(pol)
       THEN success
    ELSE IF pol.require_exit_code_zero /\ summary.has_exit
              /\ summary.exit_code \notin {-1, 0}
       THEN FALSE
    ELSE success

\* _evaluate_text_markers
evaluate_text_markers(rule, log) ==
    IF rule.signature /\ rule.flag_token THEN log.signature /\ log.flag
    ELSE IF rule.signature THEN log.signature
    ELSE IF rule.flag_token THEN log.flag
    ELSE FALSE

\* The success criteria of verify_with_rule before the exit policy:
\* structured sources first, then JSON in the log, then text markers
criteria_matched(rule, log, summary) ==
    LET json_success == summary.present /\ rule.json_key /\ summary.json
        text_json_success == ~json_success /\ rule.json_key /\ log.json
        success == json_success \/ text_json_success
    IN IF success THEN TRUE ELSE evaluate_text_markers(rule, log)

\* verify_with_rule
verify_with_rule(rule, log, summary, pol) ==
    IF ~rule.present
       THEN [verify_pass |-> FALSE, status |-> "unsupported", type |-> "rule"]
    ELSE [verify_pass |->
              apply_exit_policy(criteria_matched(rule, log, summary),
                                summary, pol),
          status |-> "evaluated", type |-> "rule"]

\* A registered plugin verifier applied to the log
PluginVerdicts == {"none", "pass", "fail"}

plugin_verify(plugin) ==
    [verify_pass |-> plugin = "pass", status |-> "evaluated",
     type |-> "plugin"]

\* The reply of the LLM verifier: not JSON, or a verdict
LlmReplies == {"not json", "pass", "fail"}

\* The arguments of evaluate_with_vuln and what its callees see
VerifyInputs ==
    [rule : Rules, log : Logs, summary : Summaries, pol : VerifierPolicies,
     plugin : PluginVerdicts, llm : LlmReplies]

\* evaluate_with_vuln lines 51-83: the first verifier and its fallback;
\* calls lists the verifiers in the order they ran, done says the function
\* returned at line 83
first_stage(a) ==
    LET registered == a.plugin # "none"
        rule_result == verify_with_rule(a.rule, a.log, a.summary, a.pol)
        plugin_result == plugin_verify(a.plugin)
    IN IF ~registered \/ a.pol.prefer_rule
          THEN IF rule_result.status = "unsupported" /\ registered
                    /\ ~a.pol.prefer_rule
                  THEN [base |-> plugin_result, calls |-> <<"rule", "plugin">>,
                        done |-> FALSE]
                  ELSE [base |-> rule_result, calls |-> <<"rule">>,
                        done |-> FALSE]
       ELSE IF plugin_result.verify_pass
          THEN [base |-> plugin_result, calls |-> <<"plugin">>,
                done |-> FALSE]
       ELSE IF rule_result.status # "unsupported"
          THEN [base |-> rule_result, calls |-> <<"plugin", "rule">>,
                done |-> rule_result.verify_pass]
       ELSE [base |-> plugin_result, calls |-> <<"plugin", "rule">>,
             done |-> FALSE]

\* evaluate_with_vuln lines 85-88
second_stage(a, s) ==
    IF ~s.done /\ a.pol.prefer_rule /\ s.base.status = "unsupported"
          /\ a.plugin # "none"
       THEN [s EXCEPT !.base = plugin_verify(a.plugin),
                      !.calls = Append(@, "plugin")]
       ELSE s

\* llm_assisted_verify: None unless the policy sets llm_assist and the
\* reply parses
llm_assisted_verify(a) ==
    IF ~a.pol.llm_assist \/ a.llm = "not json"
       THEN [verify_pass |-> FALSE, status |-> "None", type |-> "llm"]
       ELSE [verify_pass |-> a.llm = "pass", status |-> "evaluated-llm",
             type |-> "llm"]

\* evaluate_with_vuln
evaluate_with_vuln(a) ==
    LET s == second_stage(a, first_stage(a))
        llm_result == llm_assisted_verify(a)
    IN IF s.done \/ s.base.verify_pass
          THEN [result |-> s.base, calls |-> s.calls]
       ELSE [result |-> IF llm_result.status = "None" THEN s.base
                                                     ELSE llm_result,
             calls |-> IF a.pol.llm_assist THEN Append(s.calls, "llm")
                                           ELSE s.calls]

VfIdle == [pc |-> "idle",
           a |-> [rule |-> NoRule,
                  log |-> [signature |-> FALSE, flag |-> FALSE, json |-> FALSE],
                  summary |-> NoSummary,
                  pol |-> [prefer_rule |-> FALSE, llm_assist |-> FALSE,
                           require_exit_code_zero |-> FALSE],
                  plugin |-> "none", llm |-> "not json"],
           rule_result |-> [verify_pass |-> FALSE, status |-> "unsupported",
                            type |-> "rule"],
           calls |-> <<>>,
           result |-> [verify_pass |-> FALSE, status |-> "unsupported",
                       type |-> "rule"]]

VfFrame ==
    UNCHANGED <<loopVars, smVars, execVars, netVars, rsVars, pipeVars, syn, pl>>

\* One call of evaluate_with_vuln; rule_result keeps what verify_with_rule
\* returns for the same arguments
EvaluateWithVuln ==
    /\ vf.pc = "idle"
    /\ \E a \in VerifyInputs :
         LET r == evaluate_with_vuln(a) IN
         vf' = [pc |-> "returned", a |-> a,
                rule_result |->
                    verify_with_rule(a.rule, a.log, a.summary, a.pol),
                calls |-> r.calls, result |-> r.result]

----------------------------------------------------------------------------
(* orchestrator/plan.py main with common/schema/requirement.py and         *)
(* common/sid.py                                                           *)

\* Sidecar entries of executor.sidecars: objects, named here by their name
\* key, or an entry that is not an object
SidecarEntries == {"db", "cache", "not-a-dict"}

\* The executor section of a requirement: absent, or with a sidecars list
ExecutorSections ==
    {[present |-> FALSE, sidecars |-> <<>>]}
      \cup {[present |-> TRUE, sidecars |-> s] :
               s \in UNION {[1..n -> SidecarEntries] : n \in 0..MaxSidecars}}

Seeds == {[given |-> FALSE, v |-> 0], [given |-> TRUE, v |-> 0],
          [given |-> TRUE, v |-> 1]}

\* Requirement files; "omitted" marks a key the file does not have
Requirements ==
    [model_version : {"omitted", "gpt-4.1-mini", "gpt-x"},
     prompt_hash : {"omitted", "abc"},
     seed : Seeds,
     retriever_commit : {"omitted", "c1"},
     corpus_snapshot : {"omitted"},
     pattern_id : {"omitted", "unknown"},
     deps_digest : {"omitted"},
     base_image_digest : {"omitted"},
     vuln_id : {"omitted", "CWE-89", "cwe-89"},
     vuln_ids : {<<>>, <<"CWE-89", "CWE-352">>, <<"CWE-352", "CWE-89">>,
                 <<"CWE-89", "CWE_89">>},
     multi_vuln : BOOLEAN,
     executor : ExecutorSections,
     language : {"python", "node"}]

\* _coerce_identifier: stripped, spaces removed, upper-cased; "" when the
\* value is not a string
coerce_identifier(value) ==
    CASE value = "omitted" -> ""
      [] value = "cwe-89"  -> "CWE-89"
      [] OTHER             -> value

RECURSIVE dedup(_, _)
dedup(seq, acc) ==
    IF seq = <<>> THEN acc
    ELSE LET id == coerce_identifier(Head(seq)) IN
         dedup(Tail(seq),
               IF id # "" /\ \A i \in DOMAIN acc : acc[i] # id
                  THEN Append(acc, id) ELSE acc)

\* _extract_vuln_ids
extract_vuln_ids(req) ==
    LET declared == dedup(req.vuln_ids, <<>>)
        primary == coerce_identifier(req.vuln_id)
    IN IF primary = "" THEN declared
       ELSE <<primary>> \o SelectSeq(declared, LAMBDA id : id # primary)

\* _normalize_executor_policy: the statements that build a sidecar record
\* follow the loop over the entries, so they read the loop variable as the
\* loop left it
normalize_executor_policy(req) ==
    LET sidecars == req.executor.sidecars IN
    IF sidecars = <<>>
       THEN [error |-> "UnboundLocalError", sidecars |-> <<>>]
    ELSE IF sidecars[Len(sidecars)] = "not-a-dict"
       THEN [error |-> "AttributeError", sidecars |-> <<>>]
    ELSE [error |-> "none", sidecars |-> <<sidecars[Len(sidecars)]>>]

\* slugify_vuln_id: lower-cased, every run of characters other than a-z
\* and 0-9 replaced by one "-", leading and trailing "-" stripped
slugify_vuln_id(value) ==
    CASE value = "CWE-89"  -> "cwe-89"
      [] value = "CWE_89"  -> "cwe-89"
      [] value = "CWE-352" -> "cwe-352"
      [] OTHER             -> "vuln"

\* normalize_requirement lines 86-97: one bundle per effective vuln id;
\* workspace_subdir is app, or app/<slug> when there are several
vuln_bundles(effective) ==
    [i \in DOMAIN effective |->
        LET slug == slugify_vuln_id(effective[i]) IN
        [vuln_id |-> effective[i], slug |-> slug,
         workspace_subdir |->
             IF Len(effective) = 1 THEN <<"app">> ELSE <<"app", slug>>]]

\* workspace_dir_for_bundle, metadata_dir_for_bundle and
\* artifacts_dir_for_bundle (kind run), as paths below the directories of
\* the SID
dirs_for_bundle(multi_vuln, bundle) ==
    [workspace |-> <<"workspaces">> \o bundle.workspace_subdir,
     metadata |-> IF multi_vuln THEN <<"metadata", "bundles", bundle.slug>>
                  ELSE <<"metadata">>,
     artifacts |-> IF multi_vuln THEN <<"artifacts", "run", bundle.slug>>
                   ELSE <<"artifacts", "run">>]

\* normalize_requirement
normalize_requirement(req, multi_vuln_opt_in) ==
    LET requested == extract_vuln_ids(req)
        multi == (req.multi_vuln \/ multi_vuln_opt_in) /\ Len(requested) > 1
        effective == IF multi THEN requested ELSE SubSeq(requested, 1, 1)
        executor_policy == normalize_executor_policy(req)
    IN IF requested = <<>>
          THEN [error |-> "RequirementValidationError", multi_vuln |-> FALSE,
                effective_vuln_ids |-> <<>>, vuln_ids_digest |-> {},
                bundles |-> <<>>, sidecars |-> <<>>]
       ELSE [error |-> executor_policy.error, multi_vuln |-> multi,
             effective_vuln_ids |-> effective,
             \* sha256 of the sorted ids joined by newlines: the set of ids
             vuln_ids_digest |->
                 IF multi THEN {effective[i] : i \in DOMAIN effective} ELSE {},
             bundles |-> vuln_bundles(effective),
             sidecars |-> executor_policy.sidecars]

\* requirement.get(key, default)
get(value, default) == IF value = "omitted" THEN default ELSE value

\* str(seed) for the seeds used here
str(n) == CASE n = 0 -> "0" [] n = 1 -> "1" [] n = 2 -> "2" [] OTHER -> "3"

\* _prompt_hash: sha256 of the constant generator-prompt-v1
prompt_hash == "sha256(generator-prompt-v1)"

\* _default_components
default_components(req) ==
    [model_version |-> get(req.model_version, "gpt-4.1-mini"),
     prompt_hash |-> prompt_hash,
     seed |-> str(IF req.seed.given THEN req.seed.v ELSE 0),
     retriever_commit |-> get(req.retriever_commit, "unknown"),
     corpus_snapshot |-> get(req.corpus_snapshot, "mvp-sample"),
     pattern_id |-> get(req.pattern_id, "unknown"),
     deps_digest |-> get(req.deps_digest, "unknown"),
     base_image_digest |-> get(req.base_image_digest, "unknown")]

\* compute_sid over the components of build_plan; the hash is taken as
\* injective, so the SID is the serialised payload: the eight components
\* and, when it is given, vuln_ids_digest
compute_sid(components, vuln_ids_digest) ==
    <<components.base_image_digest, components.corpus_snapshot,
      components.deps_digest, components.model_version,
      components.pattern_id, components.prompt_hash,
      components.retriever_commit, components.seed, vuln_ids_digest>>

\* The SID build_plan gives a normalised requirement
sid_of(req, multi_vuln_opt_in) ==
    compute_sid(default_components(req),
                normalize_requirement(req, multi_vuln_opt_in).vuln_ids_digest)

PlIdle ==
    [pc |-> "idle",
     req |-> [model_version |-> "omitted", prompt_hash |-> "omitted",
              seed |-> [given |-> FALSE, v |-> 0],
              retriever_commit |-> "omitted", corpus_snapshot |-> "omitted",
              pattern_id |-> "omitted", deps_digest |-> "omitted",
              base_image_digest |-> "omitted", vuln_id |-> "omitted",
              vuln_ids |-> <<>>, multi_vuln |-> FALSE,
              executor |-> [present |-> FALSE, sidecars |-> <<>>],
              language |-> "python"],
     multi_vuln_opt_in |-> FALSE,
     error |-> "none",
     plan_json |-> [exists |-> FALSE, sid |-> <<>>, vuln_ids |-> <<>>,
                    multi_vuln |-> FALSE, vuln_bundles |-> <<>>,
                    sidecars |-> <<>>]]

PlFrame ==
    UNCHANGED <<loopVars, smVars, execVars, netVars, rsVars, pipeVars, syn, vf>>

\* main: the requirement is normalised, and when that raises no error the
\* plan is built and written
PlanMain ==
    /\ pl.pc = "idle"
    /\ \E req \in Requirements, multi_vuln_opt_in \in BOOLEAN :
       LET n == normalize_requirement(req, multi_vuln_opt_in) IN
       pl' = [pc |-> "exited", req |-> req,
              multi_vuln_opt_in |-> multi_vuln_opt_in,
              error |-> n.error,
              plan_json |->
                  IF n.error = "none"
                     THEN [exists |-> TRUE,
                           sid |-> sid_of(req, multi_vuln_opt_in),
                           vuln_ids |-> n.effective_vuln_ids,
                           multi_vuln |-> n.multi_vuln,
                           vuln_bundles |-> n.bundles,
                           sidecars |-> n.sidecars]
                     ELSE PlIdle.plan_json]

InitPureIdle == syn = SynIdle /\ vf = VfIdle /\ pl = PlIdle

----------------------------------------------------------------------------
(* The orchestrator specification: one driver per SID, operations atomic *)

InitSM ==
    /\ sm = "PLAN"
    /\ sm_ret = "none"
    /\ sm_from = "PLAN"
    /\ sm_arg = "-"
    /\ sm_path = <<"PLAN">>

InitLoop ==
    /\ disk = [s \in SIDs |-> NoFile]
    /\ ctl = [s \in SIDs |-> NoFile]
    /\ store = <<>>
    /\ now = 1
    /\ ret = NoRet
    /\ policy \in [SIDs -> BOOLEAN]
    /\ manifest = [s \in SIDs |-> 0]
    /\ snapshot = [s \in SIDs |-> 0]

Idle ==
    InitExecIdle /\ InitNetIdle /\ InitStoreIdle /\ InitPipeIdle /\ InitPureIdle

Init == InitLoop /\ InitSM /\ Idle

Next ==
    \/ \E s \in SIDs, m \in 1..MaxLoopsBound : load_state(s, m) /\ LoopFrame
    \/ \E s \in SIDs : start_loop(s) /\ LoopFrame
    \/ \E s \in SIDs, g \in Stages : record_success(s, g) /\ LoopFrame
    \/ \E s \in SIDs, g \in Stages, b \in BOOLEAN :
          record_failure(s, g, b) /\ LoopFrame
    \/ \E s \in SIDs : ShouldContinue(s) /\ LoopFrame
    \/ \E s \in SIDs, f \in BOOLEAN : Pack(s, f) /\ LoopFrame

Spec == Init /\ [][Next]_vars

\* The state machine on its own
NextSM ==
    \/ \E t \in Targets : transition(t) /\ SMFrame
    \/ reset /\ SMFrame

NoPolicy == policy = [s \in SIDs |-> FALSE]

InitSMOnly == InitLoop /\ NoPolicy /\ InitSM /\ Idle

SpecSM == InitSMOnly /\ [][NextSM]_vars

\* One executor process running one bundle, invocation after invocation
NextExec ==
    \/ \E b, r \in BOOLEAN : ExMain(b, r) /\ ExecFrame
    \/ ExPool /\ ExecFrame
    \/ ExAcquire /\ ExecFrame
    \/ \E ok \in BOOLEAN : ExBuild(ok) /\ ExecFrame
    \/ ExRunBegin /\ ExecFrame
    \/ \E ok \in BOOLEAN : ExSidecarRun(ok) /\ ExecFrame
    \/ \E ok \in BOOLEAN : ExSidecarWait(ok) /\ ExecFrame
    \/ \E ok \in BOOLEAN : ExAppStart(ok) /\ ExecFrame
    \/ \E ok \in BOOLEAN : ExPushPoc(ok) /\ ExecFrame
    \/ \E ok \in BOOLEAN : ExWaitReady(ok) /\ ExecFrame
    \/ \E zero, sig \in BOOLEAN : ExExec(zero, sig) /\ ExecFrame
    \/ ExLogs /\ ExecFrame
    \/ ExStopApp /\ ExecFrame
    \/ ExExcept /\ ExecFrame
    \/ ExStopSidecars /\ ExecFrame
    \/ ExRelease /\ ExecFrame
    \/ ExWriteSummary /\ ExecFrame
    \/ ExWriteIndex /\ ExecFrame

InitExecOnly ==
    /\ InitLoop /\ NoPolicy /\ InitSM /\ InitExec /\ InitNetIdle
    /\ InitStoreIdle /\ InitPipeIdle /\ InitPureIdle

SpecExec == InitExecOnly /\ [][NextExec]_vars

\* Two executors of one SID constructing their NetworkPool concurrently
InitNet ==
    /\ InitExecOnly
    /\ cfg.n_payloads = 0

NextNet ==
    \/ \E p \in Executors : NpResolve(p) /\ NetFrame
    \/ \E p \in Executors : NpInspect(p) /\ NetFrame
    \/ \E p \in Executors : NpCreate(p) /\ NetFrame

SpecNet == InitNet /\ [][NextNet]_vars

\* Processes appending to and reading the Reflexion store concurrently
InitStore ==
    /\ InitLoop /\ NoPolicy /\ InitSM /\ Idle
    /\ sf_exists \in BOOLEAN

NextStore ==
    \/ \E p \in Writers, g \in Stages : WStamp(p, g) /\ StoreFrame
    \/ \E p \in Readers : RStart(p) /\ StoreFrame
    \/ \E p \in StoreProcs : EnsureExists(p) /\ StoreFrame
    \/ \E p \in StoreProcs : EnsureCreate(p) /\ StoreFrame
    \/ \E p \in Writers : WAppend(p) /\ StoreFrame
    \/ \E p \in Readers : RRead(p) /\ StoreFrame

SpecStore == InitStore /\ [][NextStore]_vars

\* The stage programs of one SID run one after the other, in any order and
\* any number of times; the bundle needs no network and no sidecar
InitPipe ==
    /\ InitExecOnly
    /\ ~cfg.allow_network /\ cfg.n_sidecars = 0 /\ cfg.n_payloads = 0
    /\ networks = {}

NextPipe ==
    \/ \E m \in 1..MaxLoopsBound, ok \in BOOLEAN : GenBegin(m, ok)
    \/ \E ok \in BOOLEAN : GenRetry(ok)
    \/ \E m \in 1..MaxLoopsBound, b \in BOOLEAN : ReviewerRun(m, b)
    \/ \E b, r \in BOOLEAN : PipeExec(ExMain(b, r))
    \/ PipeExec(ExPool)
    \/ PipeExec(ExAcquire)
    \/ \E ok \in BOOLEAN : PipeExec(ExBuild(ok))
    \/ PipeExec(ExRunBegin)
    \/ \E ok \in BOOLEAN : PipeExec(ExAppStart(ok))
    \/ \E ok \in BOOLEAN : PipeExec(ExPushPoc(ok))
    \/ \E ok \in BOOLEAN : PipeExec(ExWaitReady(ok))
    \/ \E zero, sig \in BOOLEAN : PipeExec(ExExec(zero, sig))
    \/ PipeExec(ExLogs)
    \/ PipeExec(ExStopApp)
    \/ PipeExec(ExExcept)
    \/ PipeExec(ExStopSidecars)
    \/ PipeExec(ExRelease)
    \/ PipeExec(ExWriteSummary)
    \/ PipeExec(ExWriteIndex)
    \/ VerifierRun
    \/ \E f \in BOOLEAN : PipePack(f)

SpecPipe == InitPipe /\ [][NextPipe]_vars

\* The agents that record outcomes with the loop controller, and PACK
NextAgents ==
    \/ \E m \in 1..MaxLoopsBound, ok \in BOOLEAN : GenBegin(m, ok)
    \/ \E ok \in BOOLEAN : GenRetry(ok)
    \/ \E m \in 1..MaxLoopsBound, b \in BOOLEAN : ReviewerRun(m, b)
    \/ \E f \in BOOLEAN : PipePack(f)

SpecAgents == InitPipe /\ [][NextAgents]_vars

\* One run of the synthesis engine
InitSynth == InitLoop /\ NoPolicy /\ InitSM /\ Idle

NextSynth ==
    \/ \E k \in 0..MaxCandidates : SynStart(k, FALSE) /\ SynFrame
    \/ \E raw \in Responses : SynCandidate(raw) /\ SynFrame
    \/ SynSelect /\ SynFrame

SpecSynth == InitSynth /\ [][NextSynth]_vars

\* One candidate of the synthesis engine whose files import standard-library
\* modules, with and without auto_patch
InitDepGuard == InitLoop /\ NoPolicy /\ InitSM /\ Idle

NextDepGuard ==
    \/ \E auto_patch \in BOOLEAN : SynStart(1, auto_patch) /\ SynFrame
    \/ \E raw \in StdlibResponses : SynCandidate(raw) /\ SynFrame
    \/ SynSelect /\ SynFrame

SpecDepGuard == InitDepGuard /\ [][NextDepGuard]_vars

\* One evaluation by the verifier chain
InitVerify == InitLoop /\ NoPolicy /\ InitSM /\ Idle

NextVerify == EvaluateWithVuln /\ VfFrame

SpecVerify == InitVerify /\ [][NextVerify]_vars

\* One run of the PLAN stage
InitPlan == InitLoop /\ NoPolicy /\ InitSM /\ Idle

NextPlan == PlanMain /\ PlFrame

SpecPlan == InitPlan /\ [][NextPlan]_vars

----------------------------------------------------------------------------
(* Properties of the loop controller, the PACK gate and the state machine *)

C1_Bounded ==
    \A s \in SIDs :
        /\ disk[s].exists => disk[s].current_loop <= disk[s].max_loops
        /\ ctl[s].exists => ctl[s].current_loop <= ctl[s].max_loops

C1_Step(s) ==
    /\ disk'[s].current_loop >= disk[s].current_loop
    /\ (ctl[s].exists /\ ctl'[s].exists) =>
            ctl'[s].current_loop >= ctl[s].current_loop
    /\ (ret'.op = "start_loop" /\ ret'.sid = s) =>
            IF ctl[s].current_loop < ctl[s].max_loops
               THEN /\ ret'.val = "ok"
                    /\ ctl'[s].current_loop = ctl[s].current_loop + 1
                    /\ disk'[s].current_loop = disk[s].current_loop + 1
               ELSE /\ ret'.val = "LoopExhausted"
                    /\ ctl'[s] = ctl[s]
                    /\ disk'[s] = disk[s]

\* C1: start_loop adds exactly one to current_loop when current_loop <
\* max_loops and otherwise fails with the loop state unchanged; over any
\* sequence of start_loop, record_success, record_failure and controller
\* restarts current_loop never decreases and never exceeds max_loops.
C1_StartLoopMonotonic ==
    [](C1_Bounded) /\ [][\A s \in SIDs : C1_Step(s)]_vars

\* A start_loop that failed at the limit after at least two loops and a
\* recorded outcome.
C1_Witness ==
    \E s \in SIDs :
        /\ ret.op = "start_loop" /\ ret.sid = s /\ ret.val = "LoopExhausted"
        /\ disk[s].current_loop >= 2
        /\ disk[s].current_loop = disk[s].max_loops
        /\ Len(disk[s].history) >= 1

\* C2: should_continue() is true iff (last_result = failure and
\* current_loop < max_loops) or current_loop = 0; it is false after a
\* recorded success and after a failure recorded on the last allowed loop.
C2_ShouldContinue ==
    ret.op = "should_continue" =>
        LET st == ctl[ret.sid] IN
        /\ (ret.val = "true") <=>
              \/ (st.last_result = "failure" /\ st.current_loop < st.max_loops)
              \/ st.current_loop = 0
        /\ st.last_result = "success" => ret.val = "false"
        /\ (st.last_result = "failure" /\ st.current_loop = st.max_loops)
              => ret.val = "false"

\* should_continue answered false after a failure recorded on the last of
\* at least two allowed loops.
C2_Witness ==
    /\ ret.op = "should_continue"
    /\ ret.val = "false"
    /\ ctl[ret.sid].last_result = "failure"
    /\ ctl[ret.sid].current_loop = ctl[ret.sid].max_loops
    /\ ctl[ret.sid].max_loops >= 2

Corresponds(s, e, r) ==
    /\ r.sid = s
    /\ r.loop_count = e.loop
    /\ r.stage = e.stage
    /\ r.timestamp = e.timestamp

\* C4: every loop-history entry with success = false and blocking = true
\* has exactly one Reflexion record with the same SID, loop number, stage
\* and timestamp in the store.
C4_BlockingFailureHasOneRecord ==
    \A s \in SIDs :
        \A i \in DOMAIN disk[s].history :
            LET e == disk[s].history[i] IN
            (~e.success /\ e.blocking) =>
                Cardinality({j \in DOMAIN store : Corresponds(s, e, store[j])}) = 1

\* Two blocking failures of one loop and stage are in the history.
C4_Witness ==
    \E s \in SIDs :
        \E i, j \in DOMAIN disk[s].history :
            /\ i < j
            /\ ~disk[s].history[i].success /\ disk[s].history[i].blocking
            /\ ~disk[s].history[j].success /\ disk[s].history[j].blocking
            /\ disk[s].history[i].loop = disk[s].history[j].loop
            /\ disk[s].history[i].stage = disk[s].history[j].stage

C5_Step(s) ==
    (ret'.op = "pack" /\ ret'.sid = s) =>
        LET failed == disk[s].exists /\ disk[s].last_result = "failure"
            succeeded == disk[s].exists /\ disk[s].last_result = "success"
            override == policy[s] /\ ret'.arg = "flag"
        IN /\ (failed /\ ~override) =>
                  /\ ret'.val = "refused"
                  /\ manifest'[s] = manifest[s]
                  /\ snapshot'[s] = snapshot[s]
           /\ ((failed /\ override) \/ succeeded) =>
                  /\ ret'.val = "ok"
                  /\ manifest'[s] = manifest[s] + 1

\* C5: Pack refuses, writing neither the workspace snapshot nor
\* manifest.json, whenever loop_state.last_result is failure, unless
\* plan.policy.allow_intentional_vuln is set and Pack was invoked with
\* --allow-intentional-vuln; with last_result success it emits the manifest.
C5_PackGate == [][\A s \in SIDs : C5_Step(s)]_vars

\* Pack was refused with the flag given (the plan's policy does not allow
\* it) after a manifest had been emitted earlier.
C5_Witness ==
    \E s \in SIDs :
        /\ ret.op = "pack" /\ ret.sid = s /\ ret.val = "refused"
        /\ ret.arg = "flag"
        /\ disk[s].last_result = "failure"
        /\ manifest[s] >= 1

ClaimedEdges ==
    {<<"PLAN", "DRAFT">>, <<"DRAFT", "BUILD">>, <<"DRAFT", "REVIEW">>,
     <<"BUILD", "RUN">>, <<"RUN", "VERIFY">>, <<"VERIFY", "PACK">>,
     <<"VERIFY", "REVIEW">>, <<"REVIEW", "DRAFT">>, <<"REVIEW", "PACK">>}

SMCalled == sm_ret \notin {"none", "reset"}

\* C3: from PLAN on, transition(t) succeeds exactly for the nine edges
\* listed; any other attempt is rejected with the current state unchanged,
\* and from PACK no transition is accepted.
C3_TransitionsExact ==
    /\ SMCalled =>
          /\ (sm_ret = "ok") <=> (<<sm_from, upper(sm_arg)>> \in ClaimedEdges)
          /\ sm_ret = "ok" => sm = upper(sm_arg)
          /\ sm_ret # "ok" => sm = sm_from
          /\ sm_from = "PACK" => sm_ret # "ok"
    /\ \A i \in 1..(Len(sm_path) - 1) :
          <<sm_path[i], sm_path[i + 1]>> \in ClaimedEdges

\* PACK was reached through VERIFY and a further transition was rejected.
C3_Witness ==
    /\ sm = "PACK"
    /\ sm_from = "PACK"
    /\ SMCalled /\ sm_ret # "ok"
    /\ Len(sm_path) = 6
    /\ sm_path[5] = "VERIFY"

----------------------------------------------------------------------------
(* Properties of the executor, the network pool and the Reflexion store *)

RunFinished == x.pc = "idle" /\ inv >= 1

\* C6: on every exit path of a bundle run, exceptions during sidecar
\* start-up, readiness probing, PoC injection and payload execution
\* included, the app container and every sidecar container that was
\* started are stopped and the network handle is released.
C6_TeardownOnEveryExit ==
    RunFinished =>
        /\ containers = {}
        /\ \E k \in DOMAIN trace : trace[k] = "network_release"

\* The order of steps the claim states; the three release steps are the
\* teardown, and the summary is written after it.
ClaimedRank(e) ==
    CASE e = "build"           -> 1
      [] e = "network_acquire" -> 2
      [] e = "sidecar_up"      -> 3
      [] e = "app_up"          -> 4
      [] e = "poc_push"        -> 5
      [] e = "app_ready"       -> 6
      [] e = "exec"            -> 7
      [] e = "logs"            -> 8
      [] e \in {"stop_app", "stop_sidecars", "network_release"} -> 9
      [] OTHER                 -> 10

\* C7: within one bundle run the steps occur in the order build, network
\* acquire, sidecars up, app up, PoC push, app ready, payload execution,
\* log collection, teardown, and summary.json never shows the effect of a
\* later step (the acquired network mode) without that of an earlier one
\* (the build that the run attempted having passed).
C7_StepOrder ==
    /\ \A i, j \in DOMAIN trace :
          i < j => ClaimedRank(trace[i]) <= ClaimedRank(trace[j])
    /\ (summary_json.exists /\ summary_json.s.build_attempted
          /\ summary_json.s.network_mode # "None")
            => summary_json.s.build_passed

\* C8: after a bundle run that ends with verdict verify_pass no container
\* (app or sidecar) and no network created for the run remains.
C8_NoLeakAfterVerifyPass ==
    (RunFinished /\ verify_pass) =>
        /\ containers = {}
        /\ created \cap networks = {}

\* C9: ensuring a network that exists is a no-op, and when executors of
\* one SID ensure the same network name concurrently every call succeeds
\* and the network exists afterwards.
C9_ConcurrentEnsure ==
    /\ \A p \in Executors : np[p].pc # "failed"
    /\ (\A p \in Executors : np[p].pc = "done" /\ NamedMode(cfg))
          => resolve_mode(cfg) \in networks

\* C10: under any interleaving of writers and readers every appended
\* record is in the store exactly once, and the stored order is
\* non-decreasing in timestamp.
C10_AtomicOrderedAppends ==
    /\ \A r \in appended :
          Cardinality({k \in DOMAIN store : store[k] = r}) = 1
    /\ \A i, j \in DOMAIN store :
          i < j => store[i].timestamp <= store[j].timestamp

----------------------------------------------------------------------------
(* Properties of the stage programs taken together *)

\* C11: every stage-level failure (generator validation, executor build or
\* run, exploit verification, blocking review) is surfaced to the SID's
\* loop controller: right after the failing stage loop_state.json holds
\* last_result = failure, and a Pack without override then refuses.
C11_FailureSurfaced ==
    /\ (Quiet /\ pipe.failed)
          => (disk[PipeSid].exists /\ disk[PipeSid].last_result = "failure")
    /\ (pipe.failed /\ ret.op = "pack" /\ ret.arg = "noflag")
          => ret.val = "refused"

\* C12: evals.json reflects the verdict of the most recent attempt: once an
\* executor invocation in which the bundle's build or run failed has ended,
\* a verifier run that follows it does not report verify_pass = true.
C12_EvalsReflectLatestAttempt ==
    (Quiet /\ pipe.last = "VERIFIER" /\ index_json.exists /\ index_json.s.error)
        => ~evals_json.verify_pass

\* A write of summary.json by an invocation that started with one on disk
C13_Step ==
    (summary_json' # summary_json /\ summary_json.exists) =>
        /\ (~do_build \/ ~x.summary.build_attempted)
              => summary_json'.s.build_passed = summary_json.s.build_passed
        /\ (~do_run \/ ~x.summary.run_attempted)
              => /\ summary_json'.s.run_passed = summary_json.s.run_passed
                 /\ summary_json'.s.executed = summary_json.s.executed

\* C13: summary merging is monotonic across partial invocations: an
\* executor invocation that does not attempt a stage leaves that stage's
\* flag in run/summary.json as the previous attempt wrote it (build_passed
\* after a run-only invocation, run_passed after a build-only invocation).
C13_SummaryMergeMonotonic == [][C13_Step]_vars

\* A run-only invocation has ended after an attempt whose build passed, and
\* summary.json still shows build_passed
C13_Witness ==
    /\ RunFinished
    /\ inv >= 2
    /\ summary_json.exists
    /\ ~summary_json.s.build_attempted
    /\ summary_json.s.run_attempted
    /\ summary_json.s.build_passed

----------------------------------------------------------------------------
(* Properties of the synthesis engine                                      *)

\* C14: every manifest the guard accepts (no violations) declares all the
\* dependencies its files require, and, when it contains a pip install
\* command, installs all of them in the build.
C14_AcceptedManifestInstallsRequired ==
    \A i \in DOMAIN syn.reports :
        LET m == syn.reports[i].manifest IN
        syn.reports[i].violations = {} =>
            /\ required_static(m) \subseteq declared_combined(m)
            /\ m.pip.any => required_static(m) \subseteq installed_from_build(m)

\* C15: the materialised candidate is an accepted one, and no other
\* accepted candidate has a strictly higher static signal score, whatever
\* the indices of the two.
C15_HigherStaticSignalWins ==
    syn.pc = "done" =>
        /\ syn.selected \in Accepted(syn.reports)
        /\ \A j \in Accepted(syn.reports) :
               syn.reports[j].static <= syn.reports[syn.selected].static

\* C16: a reply that is not JSON is replaced by the fallback manifest, the
\* guard finds no violation in it, and a run whose only candidate is such a
\* reply materialises the fallback manifest without raising
\* ManifestValidationError.
C16_FallbackManifestAccepted ==
    /\ \A i \in DOMAIN syn.reports :
           ~syn.reports[i].json =>
               /\ syn.reports[i].manifest = fallback_manifest
               /\ syn.reports[i].violations = {}
    /\ (syn.k = 1 /\ Len(syn.reports) = 1 /\ ~syn.reports[1].json
            /\ syn.pc # "candidates")
          => (syn.pc = "done" /\ syn.workspace.written
                /\ syn.workspace.m = fallback_manifest)

----------------------------------------------------------------------------
(* Properties of the verifier chain                                        *)

\* C17: when the rule-based verifier is tried first and does not yield
\* verify_pass, and a plugin is registered for the vuln id, the plugin is
\* run as fallback, before the verdict is returned and before the LLM
\* verifier is consulted.
C17_PluginFallbackAfterRule ==
    (vf.pc = "returned" /\ vf.calls[1] = "rule"
        /\ ~vf.rule_result.verify_pass /\ vf.a.plugin # "none")
      => \E i \in DOMAIN vf.calls :
            /\ vf.calls[i] = "plugin"
            /\ \A j \in DOMAIN vf.calls : vf.calls[j] = "llm" => i < j

\* C18: under the policy require_exit_code_zero a run summary with a
\* non-zero exit_code makes the rule-based verifier return verify_pass =
\* false even when the success criteria matched, and with exit_code 0 a
\* matched success stands.
C18_ExitCodePolicy ==
    vf.pc = "returned" =>
        /\ (vf.a.pol.require_exit_code_zero /\ vf.a.summary.has_exit
               /\ vf.a.summary.exit_code > 0)
             => ~vf.rule_result.verify_pass
        /\ (vf.a.rule.present /\ vf.a.summary.has_exit
               /\ vf.a.summary.exit_code = 0
               /\ criteria_matched(vf.a.rule, vf.a.log, vf.a.summary))
             => vf.rule_result.verify_pass

C18_Witness ==
    /\ vf.pc = "returned"
    /\ vf.a.rule.present
    /\ vf.a.pol.require_exit_code_zero
    /\ vf.a.summary.has_exit /\ vf.a.summary.exit_code > 0
    /\ criteria_matched(vf.a.rule, vf.a.log, vf.a.summary)
    /\ ~vf.rule_result.verify_pass

----------------------------------------------------------------------------
(* Properties of the PLAN stage                                            *)

\* The reproducibility components of a requirement as they are listed for
\* the SID: each field of the requirement, an omitted one replaced by its
\* default
ListedComponents(req) ==
    [model_version |-> get(req.model_version, "gpt-4.1-mini"),
     prompt_hash |-> get(req.prompt_hash, prompt_hash),
     seed |-> IF req.seed.given THEN req.seed.v ELSE 0,
     retriever_commit |-> get(req.retriever_commit, "unknown"),
     corpus_snapshot |-> get(req.corpus_snapshot, "mvp-sample"),
     pattern_id |-> get(req.pattern_id, "unknown"),
     deps_digest |-> get(req.deps_digest, "unknown"),
     base_image_digest |-> get(req.base_image_digest, "unknown")]

ComponentsAgree(r1, o1, r2, o2) ==
    /\ ListedComponents(r1) = ListedComponents(r2)
    /\ normalize_requirement(r1, o1).vuln_ids_digest
         = normalize_requirement(r2, o2).vuln_ids_digest

\* C19: the requirement that was planned and any other requirement PLAN
\* accepts get the same SID exactly when they agree on model_version,
\* prompt_hash, seed, retriever_commit, corpus_snapshot, pattern_id,
\* deps_digest, base_image_digest (omitted fields defaulted) and, when
\* multi-vuln, on the digest of the sorted vuln id set.
C19_SameSidIffComponentsAgree ==
    pl.plan_json.exists =>
        \A req \in Requirements, opt \in BOOLEAN :
            normalize_requirement(req, opt).error = "none" =>
                (sid_of(req, opt) = pl.plan_json.sid
                    <=> ComponentsAgree(pl.req, pl.multi_vuln_opt_in, req, opt))

\* C20: a run of PLAN ends in an error only when no vuln id can be
\* resolved from the requirement; with at least one vuln id the plan is
\* written, whatever the executor section holds.
C20_PlanFailsOnlyWithoutVulnId ==
    pl.pc = "exited" =>
        /\ pl.error # "none" => extract_vuln_ids(pl.req) = <<>>
        /\ extract_vuln_ids(pl.req) # <<>> => pl.plan_json.exists

----------------------------------------------------------------------------
(* Properties of the loop bookkeeping of the agents                        *)

\* C21: a Generator outcome recorded after a REVIEW failure, while the
\* loop budget is not used up, carries a higher loop number than that
\* failure (the re-entry into DRAFT starts a new loop), and so no two
\* outcomes of one stage are recorded under the same loop number.
C21_OneOutcomePerStagePerLoop ==
    LET h == disk[PipeSid].history IN
    \A i, j \in DOMAIN h :
        /\ (i < j /\ h[i].stage = "REVIEW" /\ ~h[i].success
               /\ h[j].stage = "GENERATOR"
               /\ h[i].loop < disk[PipeSid].max_loops)
             => h[j].loop > h[i].loop
        /\ (i < j /\ h[i].stage = h[j].stage
               /\ h[i].loop < disk[PipeSid].max_loops)
             => h[i].loop # h[j].loop

\* A step in which one synthesis attempt of the Generator failed validation
GeneratorAttemptFailed ==
    now' # now /\ ret'.op = "generator" /\ ret'.val = "failure"

C22_Step ==
    GeneratorAttemptFailed =>
        LET h == disk'[PipeSid].history
            e == h[Len(h)]
        IN /\ Len(h) = Len(disk[PipeSid].history) + 1
           /\ e.stage = "GENERATOR" /\ ~e.success /\ e.blocking
           /\ Len(store') = Len(store) + 1
           /\ store'[Len(store')].stage = "GENERATOR"
           /\ store'[Len(store')].loop_count = e.loop
           /\ IF pipe'.gen = "retry"
                 THEN /\ e.loop < disk'[PipeSid].max_loops
                      /\ disk'[PipeSid].current_loop = e.loop + 1
                 ELSE /\ e.loop = disk'[PipeSid].max_loops
                      /\ disk'[PipeSid].current_loop = e.loop
                      /\ disk'[PipeSid].last_result = "failure"
                      /\ pipe'.failed

\* The history of a fresh SID on which only failed synthesis attempts were
\* recorded, one per loop
OnlyFailedAttempts ==
    /\ disk[PipeSid].exists
    /\ disk[PipeSid].history # <<>>
    /\ \A i \in DOMAIN disk[PipeSid].history :
          /\ disk[PipeSid].history[i].stage = "GENERATOR"
          /\ ~disk[PipeSid].history[i].success
          /\ disk[PipeSid].history[i].loop = i

\* C22: each failed synthesis attempt records exactly one blocking failure
\* (one history entry, one Reflexion record); another attempt follows only
\* after start_loop raised current_loop by one, which happens only below
\* max_loops; otherwise the error propagates with current_loop = max_loops
\* and last_result = failure. On a fresh SID where every attempt fails the
\* Generator ends after max_loops attempts at most.
C22_GeneratorRetryTerminates ==
    /\ [][C22_Step]_vars
    /\ [](OnlyFailedAttempts =>
            /\ Len(disk[PipeSid].history) <= disk[PipeSid].max_loops
            /\ disk[PipeSid].current_loop <= disk[PipeSid].max_loops
            /\ (pipe.gen = "idle" =>
                   /\ disk[PipeSid].current_loop = disk[PipeSid].max_loops
                   /\ disk[PipeSid].last_result = "failure"
                   /\ pipe.failed))

C22_Witness ==
    /\ OnlyFailedAttempts
    /\ pipe.gen = "idle" /\ pipe.last = "GENERATOR" /\ pipe.failed
    /\ disk[PipeSid].max_loops > 1
    /\ Len(disk[PipeSid].history) = disk[PipeSid].max_loops

----------------------------------------------------------------------------
(* Further properties of the executor                                      *)

Count(seq, name) == Cardinality({k \in DOMAIN seq : seq[k] = name})

\* C23: in a bundle run that reached exploit execution the PoC is executed
\* once for each configured payload (once when none is configured), the
\* recorded exit code is that of the last execution, and the container
\* logs are collected after the executions, also when one exits non-zero.
C23_EveryPayloadExecuted ==
    (RunFinished /\ \E k \in DOMAIN trace : trace[k] = "app_ready") =>
        /\ Count(trace, "exec") = PayloadCount
        /\ \E k \in DOMAIN trace :
              /\ trace[k] = "logs"
              /\ \A j \in DOMAIN trace : trace[j] = "exec" => j < k
        /\ summary_json.s.exit_code = IF summary_json.s.error THEN "1" ELSE "0"

\* The modules of the Python standard library among the imports of the
\* manifests
PythonStdlib == {"argparse", "logging", "sqlite3", "sys"}

\* C24: required_static never contains a standard-library module: a
\* manifest whose Python files import only standard-library modules plus
\* packages that are declared and installed has no missing-dependency
\* violation.
C24_NoStdlibInRequired ==
    \A i \in DOMAIN syn.reports :
        LET r == syn.reports[i]
            third_party == CanonSet(r.parsed.imports \ PythonStdlib)
        IN /\ required_static(r.parsed) \subseteq third_party
           /\ (/\ ~syn.auto_patch
               /\ third_party \subseteq declared_combined(r.manifest)
               /\ third_party \subseteq installed_from_build(r.manifest))
                => ~\E d \in required_static(r.manifest) :
                        <<"missing dependency", d>> \in r.violations

\* C25: with auto_patch enabled, no deps[] entry and no requirements line
\* is added on behalf of a standard-library or denylisted module: what
\* auto-patching adds to deps[] and to the requirements file of a manifest
\* never resolves to the package of such an import.
C25_NoPatchForStdlib ==
    \A i \in DOMAIN syn.reports :
        LET r == syn.reports[i]
            added == (r.manifest.deps \ r.parsed.deps)
                         \cup (r.manifest.reqs \ r.parsed.reqs)
            builtin == r.parsed.imports
                           \cap (PythonStdlib \cup auto_patch_denylist)
        IN syn.auto_patch => CanonSet(added) \cap CanonSet(builtin) = {}

OutcomeRecorded ==
    now' # now /\ ret'.op \in {"record_success", "record_failure"}

C26_Step ==
    OutcomeRecorded =>
        LET s == ret'.sid
            h == disk'[s].history
            e == h[Len(h)]
        IN /\ h = Append(disk[s].history, e)
           /\ disk'[s].last_result = IF e.success THEN "success" ELSE "failure"
           /\ IF ~e.success /\ e.blocking
                 THEN Len(store') = Len(store) + 1
                 ELSE store' = store

\* C26: a Loop Controller outcome appends a Reflexion record only when it
\* is a blocking failure: record_success and record_failure with
\* blocking = false append a history entry and set last_result and leave
\* the Reflexion store unchanged.
C26_RecordOnlyOnBlockingFailure == [][C26_Step]_vars

\* The sidecar mappings a requirement declares, in declaration order
DeclaredSidecars(req) ==
    SelectSeq(req.executor.sidecars, LAMBDA entry : entry # "not-a-dict")

\* C27: executor-policy normalisation preserves every declared sidecar: the
\* plan written for a requirement declaring n sidecar mappings holds
\* exactly those n entries, in declaration order.
C27_EverySidecarPreserved ==
    (pl.pc = "exited" /\ pl.plan_json.exists) =>
        pl.plan_json.sidecars = DeclaredSidecars(pl.req)

\* C28: after every executor invocation the bundle's exit_code in
\* run/summary.json equals its exit_code in run/index.json; an exit code
\* recorded by an earlier run survives a later build-only invocation in
\* both files.
C28_ExitCodeSameInSummaryAndIndex ==
    (RunFinished /\ summary_json.exists /\ index_json.exists) =>
        summary_json.s.exit_code = index_json.s.exit_code

\* C29: when require_exit_code_zero is set and the run's exit_code is
\* non-zero, the final verdict returned by the whole verifier chain
\* (rule-based, plugin, LLM-assist) is never verify_pass = true.
C29_ChainHonoursExitPolicy ==
    (vf.pc = "returned" /\ vf.a.pol.require_exit_code_zero
        /\ vf.a.summary.has_exit /\ vf.a.summary.exit_code > 0)
      => ~vf.result.verify_pass

\* C30: distinct effective vuln ids of one plan map to distinct slugs and
\* workspace subdirectories, so no two bundles of a SID share a workspace,
\* metadata or artefact directory.
C30_BundleDirsDisjoint ==
    pl.plan_json.exists =>
        LET b == pl.plan_json.vuln_bundles
            dirs(i) == dirs_for_bundle(pl.plan_json.multi_vuln, b[i])
        IN \A i, j \in DOMAIN b :
              b[i].vuln_id # b[j].vuln_id =>
                 /\ b[i].slug # b[j].slug
                 /\ b[i].workspace_subdir # b[j].workspace_subdir
                 /\ dirs(i).workspace # dirs(j).workspace
                 /\ dirs(i).metadata # dirs(j).metadata
                 /\ dirs(i).artifacts # dirs(j).artifacts

====
